---- MODULE Spec2Model ----
(***************************************************************************)
(* A state-machine model of libtransmission/peer-mgr.cc: the per-torrent   *)
(* swarm (peer-info pools, connected peers, handshakes, active requests),  *)
(* the session-wide peer manager (incoming handshakes, cached outbound     *)
(* candidates) and the handlers that mutate them.                          *)
(*                                                                         *)
(* Objects that the code reaches through raw pointers are modelled with an *)
(* explicit heap: a tr_peer_info is a cell of `info`, named by an InfoId;  *)
(* a pool maps socket addresses to the ids of the nodes it owns; a         *)
(* tr_peerMsgs is a cell of `peer`, named by a PeerId, and holds the id of *)
(* its peer_info.  An id that no pool owns is freed memory: a peer that    *)
(* still holds it has a dangling pointer, reads through it see either the  *)
(* stale cell or, once the allocator has handed the cell out again, the    *)
(* object that now lives there.                                            *)
(***************************************************************************)
EXTENDS Integers, Sequences, FiniteSets, TLC

(***************************************************************************)
(* Bounds of the model.                                                    *)
(***************************************************************************)
NumTorrents == 2
NumIPs == 1
MaxPort == 3
MaxInfos == 3
MaxPeerObjs == 2
MaxPeerLimit == 2
MaxTicks == 2
TickSecs == 200
MaxFails == 1
MaxSalt == 1
MaxHandshakes == 1
MaxPortMsgs == 2
NumBlocks == 2
MaxAskedBlock == 1
TtlTickSecs == 45
MaxTtlTicks == 4
NumWebseeds == 1
MaxStale == 11
MaxUploadSlots == 1
MaxRate == 1

(***************************************************************************)
(* Program constants.                                                      *)
(***************************************************************************)
MaxBadPiecesPerPeer == 5
RequestTtlSecs == 90
MaxConnectionsPerPulse == 9
OutboundCandidateListCapacity == 36
MinUploadIdleSecs == 60
MaxUploadIdleSecs == 300
SeedIdleSecs == 30
OptimisticUnchokeMultiplier == 4

\* tr_peer_from values used by the model, most trusted first
TR_PEER_FROM_INCOMING == 0
TR_PEER_FROM_TRACKER == 2
TR_PEER_FROM_PEX == 4

Torrents == 1..NumTorrents
IPs == 1..NumIPs
Ports == 1..MaxPort
InfoIds == 1..MaxInfos
PeerIds == 1..MaxPeerObjs
Blocks == 1..NumBlocks
\* the blocks the scenarios without an endgame ask the peers for
AskedBlocks == 1..MaxAskedBlock
WebseedIds == 1..NumWebseeds
Sources == {TR_PEER_FROM_INCOMING, TR_PEER_FROM_TRACKER, TR_PEER_FROM_PEX}
PexSources == {TR_PEER_FROM_TRACKER, TR_PEER_FROM_PEX}
ADDED_F_CONNECTABLE == "connectable"
PexFlagBits == {ADDED_F_CONNECTABLE}

\* a tr_socket_address is <<ip, port>>; port 0 is the empty tr_port
SockAddrs == IPs \X Ports
EmptyPort == 0
NoPeer == 0
NoInfo == 0
\* a pointer to a tr_peerMsgs that has been destroyed
Dangling == -1

\* the counters of tr_swarm_stats are uint16_t
Inc16(x) == (x + 1) % 65536
Dec16(x) == (x - 1) % 65536

Min2(a, b) == IF a <= b THEN a ELSE b
Max2(a, b) == IF a >= b THEN a ELSE b
Range(s) == {s[i] : i \in DOMAIN s}

RECURSIVE SetToSeq(_)
SetToSeq(S) == IF S = {} THEN <<>>
               ELSE LET x == CHOOSE y \in S : TRUE IN <<x>> \o SetToSeq(S \ {x})

\* all orderings of a finite set
RECURSIVE Perms(_)
Perms(S) == IF S = {} THEN {<<>>}
            ELSE UNION {{<<x>> \o p : p \in Perms(S \ {x})} : x \in S}

SeqRemove(s, x) == SelectSeq(s, LAMBDA y : y # x)

(***************************************************************************)
(* tr_peer_info: the durable per-address record.  The class lives in       *)
(* peer-mgr.h; its operations are modelled from the data model and the     *)
(* component design of the specification.                                  *)
(***************************************************************************)
NullInfo ==
    [addr |-> 0, port |-> EmptyPort, from_first |-> TR_PEER_FROM_INCOMING,
     from_best |-> TR_PEER_FROM_INCOMING, flags |-> {}, fails |-> 0,
     attempt |-> 0, piece |-> 0, conn_at |-> 0, seed |-> FALSE,
     banned |-> FALSE, connected |-> FALSE, connectable |-> "unknown",
     utp |-> "unknown"]

\* tr_peer_info{ socket_address, flags, from } / tr_peer_info{ address, flags, from }
NewInfo(ip, port, flags, from) ==
    [NullInfo EXCEPT !.addr = ip, !.port = port, !.flags = flags,
                     !.from_first = from, !.from_best = from]

listen_socket_address(pi) == <<pi.addr, pi.port>>

found_at(pi, from) == [pi EXCEPT !.from_best = Min2(pi.from_best, from)]

set_pex_flags(pi, flags) == [pi EXCEPT !.flags = pi.flags \cup flags]

on_connection_failed(pi) == [pi EXCEPT !.fails = pi.fails + 1]

ban(pi) == [pi EXCEPT !.banned = TRUE]

set_connected(pi, t, value) == [pi EXCEPT !.connected = value, !.conn_at = t]

MergeConnectable(a, b) ==
    IF a.connectable = b.connectable THEN a.connectable
    ELSE IF a.connectable = "unknown" THEN
        (IF b.connectable = "no" /\ a.connected THEN "unknown" ELSE b.connectable)
    ELSE IF b.connectable = "unknown" THEN
        (IF a.connectable = "no" /\ b.connected THEN "unknown" ELSE a.connectable)
    ELSE "unknown"

\* this.merge(that): fold that's flags, source, failure count and timestamps into this
merge(this, that) ==
    [this EXCEPT !.flags = this.flags \cup that.flags,
                 !.from_best = Min2(this.from_best, that.from_best),
                 !.fails = Max2(this.fails, that.fails),
                 !.attempt = Max2(this.attempt, that.attempt),
                 !.piece = Max2(this.piece, that.piece),
                 !.conn_at = Max2(this.conn_at, that.conn_at),
                 !.seed = this.seed \/ that.seed,
                 !.banned = this.banned \/ that.banned,
                 !.connectable = MergeConnectable(this, that),
                 !.utp = IF this.utp = "unknown" THEN that.utp ELSE this.utp]

\* seconds since the peer last did anything; empty (-1) when not connected
idle_secs(pi, t) == IF pi.connected THEN t - Max2(pi.piece, pi.conn_at) ELSE -1

\* the ascending backoff schedule, keyed on the failure count
ReconnectInterval(fails) == IF fails = 0 THEN 0 ELSE IF fails = 1 THEN 10 ELSE 60

reconnect_interval_has_passed(pi, t) == t - pi.attempt >= ReconnectInterval(pi.fails)

Sign(x) == IF x < 0 THEN -1 ELSE IF x > 0 THEN 1 ELSE 0

compare_by_piece_data_time(a, b) == Sign(a.piece - b.piece)

compare_by_failure_count(a, b) == Sign(a.fails - b.fails)

\* CompareAtomsByUsefulness::compare -- better goes first
CompareAtomsCompare(a, b) ==
    IF compare_by_piece_data_time(a, b) # 0 THEN -compare_by_piece_data_time(a, b)
    ELSE IF Sign(a.from_best - b.from_best) # 0 THEN Sign(a.from_best - b.from_best)
    ELSE compare_by_failure_count(a, b)

CompareAtomsByUsefulness(a, b) == CompareAtomsCompare(a, b) < 0


(***************************************************************************)
(* State.                                                                  *)
(***************************************************************************)
VARIABLES
    now,                 \* tr_time(), seconds
    crashed,             \* the process dereferenced a null pointer / empty node handle
    blocklist,           \* the IPs session->addressIsBlocked() answers true for
    session_peer_limit,  \* session->peerLimit()
    swarm,               \* per torrent: "none" (not added yet), "live", "destroyed"
    tor,                 \* per torrent: the tr_torrent fields the manager reads
    is_running,          \* tr_swarm::is_running
    info,                \* the heap of tr_peer_info cells
    connectable_pool,    \* per torrent: socket address -> InfoId
    incoming_pool,
    graveyard_pool,
    peer,                \* the heap of tr_peerMsgs cells
    peers,               \* per torrent: tr_swarm::peers, a sequence of PeerIds
    stats,               \* per torrent: tr_swarm::stats
    incoming_handshakes, \* tr_peerMgr::incoming_handshakes, keyed by socket address
    outgoing_handshakes, \* per torrent: tr_swarm::outgoing_handshakes
    outbound_candidates, \* tr_peerMgr::outbound_candidates_, best at the back
    webseed,             \* the heap of webseed cells
    webseeds,            \* per torrent: tr_swarm::webseeds
    active_requests,     \* per torrent: set of [block, peer, sent]
    port_msgs,           \* how many Port messages the peers have sent so far
    banned_remotes,      \* history: <<torrent, remote address>> of every peer ban() was called for
    optimistic,          \* per torrent: tr_swarm::optimistic, a PeerId, NoPeer or Dangling
    optimistic_unchoke_time_scaler, \* per torrent
    upload_slots,        \* session->uploadSlotsPerTorrent()
    is_endgame,          \* per torrent: tr_swarm::is_endgame_
    endgame_left,        \* history, per torrent: the blocks left at the call that last turned is_endgame on
    lock_depth,          \* how often the executing thread holds the session lock
    pc                   \* the entry point the executing thread is in, and where

vars == <<now, crashed, blocklist, session_peer_limit, swarm, tor, is_running, info,
          connectable_pool, incoming_pool, graveyard_pool, peer, peers, stats,
          incoming_handshakes, outgoing_handshakes, outbound_candidates,
          webseed, webseeds, active_requests, port_msgs, banned_remotes,
          optimistic, optimistic_unchoke_time_scaler, upload_slots, is_endgame, endgame_left,
          lock_depth, pc>>

NullPeer ==
    [info |-> NoInfo, sa |-> <<0, 0>>, incoming |-> FALSE, do_purge |-> FALSE,
     strikes |-> 0, blame |-> FALSE, is_seed |-> FALSE, tor |-> 0,
     choked |-> TRUE, interested |-> FALSE]

NullWebseed == [tor |-> 0, swarm_set |-> FALSE]

NullStats == [peer_count |-> 0, peer_from_count |-> [f \in Sources |-> 0]]

NullTor == [peer_limit |-> MaxPeerLimit, is_done |-> FALSE, has_metainfo |-> TRUE,
            webseed_count |-> 0, allows_pex |-> TRUE, start_date |-> 0,
            priority |-> "normal", up_maxed |-> FALSE,
            can_upload |-> TRUE, have |-> {}]

EmptyPool == [k \in {} |-> NoInfo]

\* the executing thread is in no entry point
Idle == [op |-> "idle", at |-> "idle", arg |-> <<>>]

\* everything but the cached candidate list
InitTables ==
    /\ now = 0
    /\ crashed = FALSE
    /\ blocklist = {}
    /\ session_peer_limit = NumTorrents * MaxPeerLimit
    /\ swarm = [t \in Torrents |-> "none"]
    /\ tor = [t \in Torrents |-> NullTor]
    /\ is_running = [t \in Torrents |-> FALSE]
    /\ info = [i \in InfoIds |-> NullInfo]
    /\ connectable_pool = [t \in Torrents |-> EmptyPool]
    /\ incoming_pool = [t \in Torrents |-> EmptyPool]
    /\ graveyard_pool = [t \in Torrents |-> EmptyPool]
    /\ peer = [p \in PeerIds |-> NullPeer]
    /\ peers = [t \in Torrents |-> <<>>]
    /\ stats = [t \in Torrents |-> NullStats]
    /\ incoming_handshakes = {}
    /\ outgoing_handshakes = [t \in Torrents |-> {}]
    /\ webseed = [w \in WebseedIds |-> NullWebseed]
    /\ webseeds = [t \in Torrents |-> <<>>]
    /\ active_requests = [t \in Torrents |-> {}]
    /\ banned_remotes = {}
    /\ port_msgs = 0
    /\ optimistic = [t \in Torrents |-> NoPeer]
    /\ optimistic_unchoke_time_scaler = [t \in Torrents |-> 0]
    /\ upload_slots = MaxUploadSlots
    /\ is_endgame = [t \in Torrents |-> FALSE]
    /\ endgame_left = [t \in Torrents |-> {}]
    /\ lock_depth = 0
    /\ pc = Idle

Init == InitTables /\ outbound_candidates = <<>>

(***************************************************************************)
(* Pools: std::unordered_map<tr_socket_address, tr_peer_info>.  A pool     *)
(* owns the cells its values name.                                         *)
(***************************************************************************)
PoolHas(pool, key) == key \in DOMAIN pool

PoolIds(pool) == {pool[k] : k \in DOMAIN pool}

\* insert / try_emplace: no effect when the key is taken
PoolInsert(pool, key, id) ==
    IF key \in DOMAIN pool THEN pool
    ELSE [k \in DOMAIN pool \cup {key} |-> IF k = key THEN id ELSE pool[k]]

PoolErase(pool, key) == [k \in DOMAIN pool \ {key} |-> pool[k]]

\* the cells some pool owns, given the three pool maps
OwnedIn(cp, ip, gp) ==
    UNION {PoolIds(cp[t]) \cup PoolIds(ip[t]) \cup PoolIds(gp[t]) : t \in Torrents}

Owned == OwnedIn(connectable_pool, incoming_pool, graveyard_pool)

LivePeers == UNION {Range(peers[t]) : t \in Torrents}

\* the cells some connected peer points at
ReferencedBy(pr, ps) == {pr[p].info : p \in UNION {Range(ps[t]) : t \in Torrents}}

MinOf(S) == CHOOSE x \in S : \A y \in S : x <= y

\* The cells operator new may return: any freed cell.  Freed cells that nothing
\* points at are interchangeable, so one of them stands for all; a freed cell that
\* a connected peer still points at is a different outcome (the peer then aliases
\* the new object).
AllocChoices(owned, referenced) ==
    LET free == InfoIds \ owned
        clean == free \ referenced
    IN (free \cap referenced) \cup (IF clean = {} THEN {} ELSE {MinOf(clean)})

\* Cells that no pool owns and no peer points at hold nothing observable.
Scrub(heap, owned, referenced) ==
    [i \in InfoIds |-> IF i \in owned \cup referenced THEN heap[i] ELSE NullInfo]


(***************************************************************************)
(* The handlers run to completion under the session lock, and most of them *)
(* are sequences of calls that each rewrite several containers.  They are  *)
(* written as operators on a record of the mutable state, which an action  *)
(* commits at its end.                                                     *)
(***************************************************************************)
Cur ==
    [info |-> info, cp |-> connectable_pool, ip |-> incoming_pool,
     gp |-> graveyard_pool, peer |-> peer, peers |-> peers, stats |-> stats,
     reqs |-> active_requests, out |-> outgoing_handshakes, run |-> is_running,
     cands |-> outbound_candidates, crashed |-> crashed,
     opt |-> optimistic, scaler |-> optimistic_unchoke_time_scaler,
     \* whether the handler has used a tr_peer_info that was already destroyed
     ub |-> FALSE]

\* the bounds of the model on what a handler may leave behind
WithinBounds(st) ==
    /\ \A i \in InfoIds : st.info[i].fails <= MaxFails
    /\ \A t \in Torrents, f \in Sources :
          st.stats[t].peer_from_count[f] \in 0..MaxPeerObjs \cup {Dec16(0)}

\* Addresses carry no meaning, so the state a handler leaves is renumbered: the
\* cells in the order in which the pools (by key) and then the connected peers
\* reach them, the tr_peerMsgs in the order of the peers sequences.
SockAddrSeq == SetToSeq(SockAddrs)

PoolSeq(pool) ==
    LET keys == SelectSeq(SockAddrSeq, LAMBDA k : k \in DOMAIN pool)
    IN [i \in 1..Len(keys) |-> pool[keys[i]]]

RECURSIVE Flatten(_)
Flatten(ss) == IF ss = <<>> THEN <<>> ELSE Head(ss) \o Flatten(Tail(ss))

RECURSIVE Dedup(_, _)
Dedup(q, seen) ==
    IF q = <<>> THEN <<>>
    ELSE IF Head(q) \in seen THEN Dedup(Tail(q), seen)
    ELSE <<Head(q)>> \o Dedup(Tail(q), seen \cup {Head(q)})

\* ids in the order q reaches them, the ids q never reaches after them
OrderOf(q, ids) ==
    LET d == Dedup(SelectSeq(q, LAMBDA x : x \in ids), {})
    IN d \o SetToSeq(ids \ Range(d))

IndexIn(q, x) == CHOOSE i \in 1..Len(q) : q[i] = x

PeerOrder(st) == OrderOf(Flatten([t \in Torrents |-> st.peers[t]]), PeerIds)

InfoOrder(st) ==
    OrderOf(Flatten([t \in Torrents |->
                       PoolSeq(st.cp[t]) \o PoolSeq(st.ip[t]) \o PoolSeq(st.gp[t])])
            \o Flatten([t \in Torrents |->
                          [i \in 1..Len(st.peers[t]) |-> st.peer[st.peers[t][i]].info]]),
            InfoIds)

RenumberBy(st, po, io) ==
    LET pn == [p \in PeerIds |-> IndexIn(po, p)]
        in == [i \in InfoIds \cup {NoInfo} |-> IF i = NoInfo THEN NoInfo ELSE IndexIn(io, i)]
    IN [st EXCEPT
          !.info = [i \in InfoIds |-> st.info[io[i]]],
          !.cp = [t \in Torrents |-> [k \in DOMAIN st.cp[t] |-> in[st.cp[t][k]]]],
          !.ip = [t \in Torrents |-> [k \in DOMAIN st.ip[t] |-> in[st.ip[t][k]]]],
          !.gp = [t \in Torrents |-> [k \in DOMAIN st.gp[t] |-> in[st.gp[t][k]]]],
          !.peer = [p \in PeerIds |-> [st.peer[po[p]] EXCEPT !.info = in[@]]],
          !.peers = [t \in Torrents |-> [i \in 1..Len(st.peers[t]) |-> pn[st.peers[t][i]]]],
          !.reqs = [t \in Torrents |->
                      {IF r.peer[1] = "bt" THEN [r EXCEPT !.peer = <<"bt", pn[r.peer[2]]>>]
                       ELSE r : r \in st.reqs[t]}],
          !.opt = [t \in Torrents |->
                     IF st.opt[t] \in PeerIds THEN pn[st.opt[t]] ELSE st.opt[t]]]

Renumber(st) ==
    CHOOSE r \in {RenumberBy(st, po, io) : po \in {PeerOrder(st)}, io \in {InfoOrder(st)}} : TRUE

Commit(st0) ==
    /\ WithinBounds(st0)
    /\ \E st \in {IF st0.crashed THEN [Cur EXCEPT !.crashed = TRUE] ELSE Renumber([st0 EXCEPT !.info =
                              Scrub(st0.info, OwnedIn(st0.cp, st0.ip, st0.gp),
                                    ReferencedBy(st0.peer, st0.peers))])}
                   \* the use of a destroyed object may as well end the program
                   \cup (IF st0.ub THEN {[Cur EXCEPT !.crashed = TRUE]} ELSE {}) :
          /\ info' = st.info
          /\ connectable_pool' = st.cp
          /\ incoming_pool' = st.ip
          /\ graveyard_pool' = st.gp
          /\ peer' = st.peer
          /\ peers' = st.peers
          /\ stats' = st.stats
          /\ active_requests' = st.reqs
          /\ outgoing_handshakes' = st.out
          /\ is_running' = st.run
          /\ outbound_candidates' = st.cands
          /\ crashed' = st.crashed
          /\ optimistic' = st.opt
          /\ optimistic_unchoke_time_scaler' = st.scaler

peerCount(st, t) == Len(st.peers[t])

\* tr_peerMsgs::size(): the number of tr_peerMsgs objects alive
PeerMsgsSize(st) == Cardinality({p \in PeerIds : st.peer[p].tor # 0})

\* tr_swarm::get_existing_peer_info
get_existing_peer_info(st, t, sa) ==
    IF PoolHas(st.cp[t], sa) THEN st.cp[t][sa] ELSE NoInfo

\* an incoming entry built from the whole remote socket address
IncomingInfoKeepsPort(sa, flags, from) == NewInfo(sa[1], sa[2], flags, from)

\* incoming_pool.try_emplace(socket_address, socket_address.address(), flags, from)

IncomingInfo(sa, flags, from) == NewInfo(sa[1], EmptyPort, flags, from)

\* a variant of ensure_info_exists whose second sighting flips the pex flags
\* it is handed instead of adding them
ensure_info_exists_toggling(st, t, sa, flags, from, is_connectable) ==
    LET pool == IF is_connectable THEN st.cp[t] ELSE st.ip[t]
        fresh == IF is_connectable THEN NewInfo(sa[1], sa[2], flags, from)
                 ELSE IncomingInfo(sa, flags, from)
        put(id, cell) ==
            LET pool2 == PoolInsert(pool, sa, id)
                st2 == IF is_connectable THEN [st EXCEPT !.cp[t] = pool2]
                       ELSE [st EXCEPT !.ip[t] = pool2]
            IN [st |-> [st2 EXCEPT !.info[id] = cell], id |-> id]
        toggled(pi) == [pi EXCEPT !.flags = (pi.flags \ flags) \cup (flags \ pi.flags)]
    IN IF PoolHas(pool, sa)
       THEN {put(pool[sa], toggled(found_at(st.info[pool[sa]], from)))}
       ELSE {put(id, fresh) :
                id \in AllocChoices(OwnedIn(st.cp, st.ip, st.gp),
                                    ReferencedBy(st.peer, st.peers))}

\* tr_swarm::ensure_info_exists: the states it can leave, each with the cell it returns
ensure_info_exists(st, t, sa, flags, from, is_connectable) ==
    LET pool == IF is_connectable THEN st.cp[t] ELSE st.ip[t]
        fresh == IF is_connectable THEN NewInfo(sa[1], sa[2], flags, from)
                 ELSE IncomingInfo(sa, flags, from)
        put(id, cell) ==
            LET pool2 == PoolInsert(pool, sa, id)
                st2 == IF is_connectable THEN [st EXCEPT !.cp[t] = pool2]
                       ELSE [st EXCEPT !.ip[t] = pool2]
            IN [st |-> [st2 EXCEPT !.info[id] = cell], id |-> id]
    IN IF PoolHas(pool, sa)
       THEN {put(pool[sa], set_pex_flags(found_at(st.info[pool[sa]], from), flags))}
       ELSE {put(id, fresh) :
                id \in AllocChoices(OwnedIn(st.cp, st.ip, st.gp),
                                    ReferencedBy(st.peer, st.peers))}

\* ActiveRequests::remove(peer)
RequestsRemovePeer(reqs, who) == {r \in reqs : r.peer # who}

BtPeer(p) == <<"bt", p>>
WsPeer(w) == <<"ws", w>>

\* tr_swarm::remove_peer up to and including ~tr_peerMsgs, which tells the
\* peer info it is no longer connected
remove_peer_tables(st, t, p) ==
    LET pid == st.peer[p].info
        socket_address == st.peer[p].sa
        lsa == listen_socket_address(st.info[pid])
        from == st.info[pid].from_first
        st1 == [st EXCEPT
                  !.stats[t].peer_count = Dec16(@),
                  !.stats[t].peer_from_count[from] = Dec16(@),
                  !.peers[t] = SeqRemove(@, p),
                  !.info[pid] = set_connected(@, now, FALSE),
                  !.peer[p] = NullPeer,
                  !.ub = @ \/ pid \notin OwnedIn(st.cp, st.ip, st.gp),
                  \* nothing resets optimistic: it now names a destroyed object
                  !.opt = [x \in Torrents |-> IF st.opt[x] = p THEN Dangling ELSE st.opt[x]]]
        st2 == IF st.peer[p].incoming
               THEN [st1 EXCEPT !.ip[t] = PoolErase(@, socket_address)]
               ELSE st1
    IN [st2 EXCEPT !.gp[t] = PoolErase(@, lsa)]

\* a remove_peer whose tr_peer destructor leaves active_requests alone
remove_peer_keeps_requests(st, t, p) == remove_peer_tables(st, t, p)

\* tr_swarm::remove_peer; ~tr_peer drops the requests sent to the peer (a
\* tr_peerMsgs is built after tor->swarm is set, so its swarm is never null)
remove_peer(st, t, p) ==
    LET st1 == remove_peer_tables(st, t, p)
    IN [st1 EXCEPT !.reqs[t] = RequestsRemovePeer(@, BtPeer(p))]

\* tr_swarm::remove_all_peers
RECURSIVE remove_each(_, _, _)
remove_each(st, t, ps) ==
    IF ps = <<>> THEN st ELSE remove_each(remove_peer(st, t, Head(ps)), t, Tail(ps))

remove_all_peers(st, t) ==
    remove_each([st EXCEPT !.peers[t] = <<>>], t, st.peers[t])

\* a stop that forgets outgoing_handshakes.clear()
stop_keeps_handshakes(st, t) == remove_all_peers([st EXCEPT !.run[t] = FALSE], t)

\* tr_swarm::stop

stop(st, t) ==
    LET st1 == remove_all_peers([st EXCEPT !.run[t] = FALSE], t)
    IN [st1 EXCEPT !.out[t] = {}]


(***************************************************************************)
(* Port learning (tr_swarm::on_got_port).                                  *)
(***************************************************************************)
FirstPeerWithInfo(st, t, id) ==
    LET hits == {i \in 1..Len(st.peers[t]) : st.peer[st.peers[t][i]].info = id}
    IN IF hits = {} THEN NoPeer ELSE st.peers[t][MinOf(hits)]

\* a displacement that copies the entry instead of moving its node
MoveToGraveyardKeepsNode(st, t, key) ==
    IF PoolHas(st.cp[t], key)
    THEN [st EXCEPT !.gp[t] = PoolInsert(@, key, st.cp[t][key])]
    ELSE st

MoveToGraveyard(st, t, key) ==
    IF PoolHas(st.cp[t], key)
    THEN [st EXCEPT !.cp[t] = PoolErase(@, key),
                    !.gp[t] = PoolInsert(@, key, st.cp[t][key])]
    ELSE st

\* tr_swarm::on_got_port_duplicate_connection: [st, ret]
on_got_port_duplicate_connection(st, t, p, that_key, was_connectable) ==
    LET this == st.peer[p].info
        that == st.cp[t][that_key]
    IN IF CompareAtomsByUsefulness(st.info[this], st.info[that])
       THEN LET q == FirstPeerWithInfo(st, t, that)
                st1 == IF q = NoPeer THEN [st EXCEPT !.crashed = TRUE]
                       ELSE [st EXCEPT !.peer[q].do_purge = TRUE]
            IN [st |-> IF was_connectable THEN MoveToGraveyard(st1, t, that_key) ELSE st1,
                ret |-> FALSE]
       ELSE LET st1 == [st EXCEPT !.info[that] = merge(@, st.info[this]),
                                  !.peer[p].do_purge = TRUE]
            IN [st |-> IF was_connectable
                       THEN MoveToGraveyard(st1, t, listen_socket_address(st1.info[this]))
                       ELSE st1,
                ret |-> TRUE]

\* a re-keying that inserts under the new key and leaves the old entry behind
RekeyNodeKeepsOldKey(st, t, p, port, was_connectable) ==
    LET this == st.peer[p].info
        key == IF was_connectable THEN listen_socket_address(st.info[this])
               ELSE st.peer[p].sa
        pool == IF was_connectable THEN st.cp[t] ELSE st.ip[t]
    IN IF ~PoolHas(pool, key) THEN [st EXCEPT !.crashed = TRUE]
       ELSE [st EXCEPT !.cp[t] = PoolInsert(@, <<key[1], port>>, pool[key]),
                       !.info[this].port = port]

\* the tail of on_got_port: extract the node, change its key, insert it again
RekeyNode(st, t, p, port, was_connectable) ==
    LET this == st.peer[p].info
        key == IF was_connectable THEN listen_socket_address(st.info[this])
               ELSE st.peer[p].sa
        pool == IF was_connectable THEN st.cp[t] ELSE st.ip[t]
    IN IF ~PoolHas(pool, key) THEN [st EXCEPT !.crashed = TRUE]
       ELSE LET node == pool[key]
                st1 == IF was_connectable THEN [st EXCEPT !.cp[t] = PoolErase(@, key)]
                       ELSE [st EXCEPT !.ip[t] = PoolErase(@, key)]
            IN [st1 EXCEPT !.cp[t] = PoolInsert(@, <<key[1], port>>, node),
                           !.info[this].port = port]

\* on_got_port up to the extraction of the node: [st, rekey], rekey telling
\* whether the function goes on to extract and re-key
on_got_port_until_extract(st, t, p, port, was_connectable) ==
    LET this == st.peer[p].info
        target == <<st.info[this].addr, port>>
    IN IF PoolHas(st.cp[t], target)
       THEN LET that == st.cp[t][target]
                dup == IF st.info[that].connected
                       THEN on_got_port_duplicate_connection(st, t, p, target, was_connectable)
                       ELSE [st |-> st, ret |-> FALSE]
            IN IF dup.ret \/ dup.st.crashed THEN [st |-> dup.st, rekey |-> FALSE]
               ELSE LET st1 == dup.st
                        st2 == [st1 EXCEPT !.info[this] = merge(@, st1.info[that])]
                        st3 == [st2 EXCEPT !.cp[t] =
                                   PoolErase(@, listen_socket_address(st2.info[that]))]
                    IN [st |-> st3, rekey |-> TRUE]
       ELSE IF ~was_connectable
            THEN [st |-> [st EXCEPT !.info[this].connectable = "yes"], rekey |-> TRUE]
            ELSE [st |-> st, rekey |-> TRUE]

\* the TR_ASSERTs around the extraction: the node handle is not empty, its key
\* matches the mapped tr_peer_info, and the insertion under the new port succeeds
RekeyAsserts(st, t, p, port, was_connectable) ==
    LET this == st.peer[p].info
        key == IF was_connectable THEN listen_socket_address(st.info[this])
               ELSE st.peer[p].sa
        pool == IF was_connectable THEN st.cp[t] ELSE st.ip[t]
    IN /\ PoolHas(pool, key)
       /\ IF was_connectable THEN key = listen_socket_address(st.info[pool[key]])
          ELSE key[1] = st.info[pool[key]].addr
       /\ ~PoolHas(IF was_connectable THEN PoolErase(st.cp[t], key) ELSE st.cp[t],
                   <<key[1], port>>)

\* tr_swarm::on_got_port
on_got_port(st, t, p, port, was_connectable) ==
    LET r == on_got_port_until_extract(st, t, p, port, was_connectable)
    IN IF r.rekey THEN RekeyNode(r.st, t, p, port, was_connectable) ELSE r.st

\* tr_swarm::peer_callback_bt, case ClientGotPort
client_got_port(st, t, p, port) ==
    LET pi == st.info[st.peer[p].info]
    IN IF port = EmptyPort THEN st
       ELSE IF pi.port = EmptyPort THEN on_got_port(st, t, p, port, FALSE)
       ELSE IF pi.port # port THEN on_got_port(st, t, p, port, TRUE)
       ELSE st


(***************************************************************************)
(* Handshake completion (handshake_helpers::on_handshake_done).            *)
(***************************************************************************)
FreePeerIds(st) == {p \in PeerIds : st.peer[p].tor = 0}

\* a create_bit_torrent_peer that counts the peer under its best source
create_bit_torrent_peer_by_best_source(st, t, id, sa, incoming) ==
    LET p == MinOf(FreePeerIds(st))
    IN [st EXCEPT
          !.peer[p] = [NullPeer EXCEPT !.info = id, !.sa = sa,
                                       !.incoming = incoming, !.tor = t],
          !.info[id] = set_connected(@, now, TRUE),
          !.peers[t] = Append(@, p),
          !.stats[t].peer_count = Inc16(@),
          !.stats[t].peer_from_count[st.info[id].from_best] = Inc16(@)]

\* tr_peerMsgsNew + create_bit_torrent_peer
create_bit_torrent_peer(st, t, id, sa, incoming) ==
    LET p == MinOf(FreePeerIds(st))
    IN [st EXCEPT
          !.peer[p] = [NullPeer EXCEPT !.info = id, !.sa = sa,
                                       !.incoming = incoming, !.tor = t],
          !.info[id] = set_connected(@, now, TRUE),
          !.peers[t] = Append(@, p),
          !.stats[t].peer_count = Inc16(@),
          !.stats[t].peer_from_count[st.info[id].from_first] = Inc16(@)]

\* "else if (s->peerCount() >= s->tor->peer_limit())"

SwarmIsFull(st, t) == peerCount(st, t) >= tor[t].peer_limit

\* where the allocator can have put the tr_peerMsgs just appended to peers[t]:
\* in fresh storage, or in the storage of a destroyed tr_peerMsgs that some
\* swarm's optimistic still points at
ReuseChoices(st, t) ==
    {st} \cup {[st EXCEPT !.opt[x] = st.peers[t][Len(st.peers[t])]] :
                 x \in {y \in Torrents : st.opt[y] = Dangling}}

\* a "looking good" branch that counts a refusal as a failed connection
admit_peer_refusal_fails(st, t, id, sa, incoming, is_utp) ==
    LET st1 == IF incoming THEN st ELSE [st EXCEPT !.info[id].connectable = "yes"]
        st2 == IF is_utp THEN [st1 EXCEPT !.info[id].utp = "yes"] ELSE st1
        pi == st2.info[id]
        refused == [st2 EXCEPT !.info[id] = on_connection_failed(@)]
    IN IF pi.banned \/ SwarmIsFull(st2, t) \/ pi.connected
       THEN {[st |-> refused, ret |-> FALSE]}
       ELSE {[st |-> st3, ret |-> TRUE] :
                st3 \in ReuseChoices(create_bit_torrent_peer(st2, t, id, sa, incoming), t)}

\* the "looking good" branch, once the peer info is at hand: a set of [st, ret]
admit_peer(st, t, id, sa, incoming, is_utp) ==
    LET st1 == IF incoming THEN st ELSE [st EXCEPT !.info[id].connectable = "yes"]
        st2 == IF is_utp THEN [st1 EXCEPT !.info[id].utp = "yes"] ELSE st1
        pi == st2.info[id]
    IN IF pi.banned THEN {[st |-> st2, ret |-> FALSE]}
       ELSE IF SwarmIsFull(st2, t) THEN {[st |-> st2, ret |-> FALSE]}
       ELSE IF pi.connected THEN {[st |-> st2, ret |-> FALSE]}
       ELSE {[st |-> st3, ret |-> TRUE] :
                st3 \in ReuseChoices(create_bit_torrent_peer(st2, t, id, sa, incoming), t)}

\* a failure branch that does not ask whether the peer info is connected
handshake_failed_any(st, t, sa, read_anything) ==
    LET id == get_existing_peer_info(st, t, sa)
    IN IF id # NoInfo
       THEN LET st1 == [st EXCEPT !.info[id] = on_connection_failed(@)]
            IN IF read_anything THEN st1 ELSE [st1 EXCEPT !.info[id].connectable = "no"]
       ELSE st

\* the failure branch
handshake_failed(st, t, sa, read_anything) ==
    LET id == get_existing_peer_info(st, t, sa)
    IN IF id # NoInfo /\ ~st.info[id].connected
       THEN LET st1 == [st EXCEPT !.info[id] = on_connection_failed(@)]
            IN IF read_anything THEN st1 ELSE [st1 EXCEPT !.info[id].connectable = "no"]
       ELSE st

\* t = 0 stands for a torrent hash the session does not know
SwarmOf(t) == IF t \in Torrents /\ swarm[t] = "live" THEN t ELSE 0

\* the outcomes of on_handshake_done, tables already updated: a set of [st, ret]
on_handshake_done(st, t, incoming, sa, ok, read_anything, is_utp) ==
    LET s == SwarmOf(t)
    IN IF ~ok \/ s = 0 \/ ~st.run[s]
       THEN {[st |-> IF s # 0 THEN handshake_failed(st, s, sa, read_anything) ELSE st,
              ret |-> FALSE]}
       ELSE IF incoming
       THEN UNION {admit_peer(e.st, s, e.id, sa, TRUE, is_utp) :
                      e \in ensure_info_exists(st, s, sa, {}, TR_PEER_FROM_INCOMING, FALSE)}
       ELSE IF get_existing_peer_info(st, s, sa) = NoInfo
       THEN {[st |-> [st EXCEPT !.crashed = TRUE], ret |-> FALSE]}
       ELSE admit_peer(st, s, get_existing_peer_info(st, s, sa), sa, FALSE, is_utp)


(***************************************************************************)
(* Actions.  A handler runs to completion in one step; the steps of an     *)
(* entry point around the session lock are in the section on the lock.     *)
(* Nothing runs once the process has crashed.                              *)
(***************************************************************************)
SessionTorrents == {t \in Torrents : swarm[t] = "live"}

\* tr_peerMgrAddTorrent + tr_swarm::tr_swarm: the webseeds are built while
\* tor->swarm is still null, so tr_peer::swarm of each of them is null
AddTorrent(t, has_metainfo, n_webseeds) ==
    /\ ~crashed
    /\ swarm[t] = "none"
    /\ LET free == {w \in WebseedIds : webseed[w].tor = 0}
       IN /\ Cardinality(free) >= n_webseeds
          /\ LET ws == SubSeq(SetToSeq(free), 1, n_webseeds)
             IN /\ webseeds' = [webseeds EXCEPT ![t] = ws]
                /\ webseed' = [w \in WebseedIds |->
                                 IF w \in Range(ws) THEN [tor |-> t, swarm_set |-> FALSE]
                                 ELSE webseed[w]]
    /\ swarm' = [swarm EXCEPT ![t] = "live"]
    /\ tor' = [tor EXCEPT ![t] = [NullTor EXCEPT !.has_metainfo = has_metainfo,
                                                 !.webseed_count = n_webseeds]]
    /\ UNCHANGED <<lock_depth, pc, now, crashed, blocklist, optimistic, optimistic_unchoke_time_scaler, upload_slots, is_endgame, endgame_left, session_peer_limit, is_running, info,
                   connectable_pool, incoming_pool, graveyard_pool, peer, peers, stats,
                   incoming_handshakes, outgoing_handshakes, outbound_candidates,
                   active_requests, banned_remotes, port_msgs>>

\* tr_swarm::on_torrent_started
TorrentStarted(t) ==
    /\ ~crashed
    /\ swarm[t] = "live"
    /\ ~is_running[t]
    /\ is_running' = [is_running EXCEPT ![t] = TRUE]
    /\ tor' = [tor EXCEPT ![t].start_date = now]
    /\ UNCHANGED <<lock_depth, pc, now, crashed, blocklist, optimistic, optimistic_unchoke_time_scaler, upload_slots, is_endgame, endgame_left, session_peer_limit, swarm, info,
                   connectable_pool, incoming_pool, graveyard_pool, peer, peers, stats,
                   incoming_handshakes, outgoing_handshakes, outbound_candidates,
                   webseed, webseeds, active_requests, banned_remotes, port_msgs>>

\* tr_swarm::on_torrent_stopped
TorrentStopped(t) ==
    /\ ~crashed
    /\ swarm[t] = "live"
    /\ Commit(stop(Cur, t))
    /\ UNCHANGED <<lock_depth, pc, now, blocklist, upload_slots, is_endgame, endgame_left, session_peer_limit, swarm, tor,
                   incoming_handshakes, webseed, webseeds, banned_remotes, port_msgs>>

\* tr_swarm::on_torrent_doomed: stop(), tor->swarm = nullptr, delete this.
\* The destructor frees the pools and the webseeds; peers, outgoing_handshakes
\* and is_running are what its assertions read.
TorrentDoomed(t) ==
    /\ ~crashed
    /\ swarm[t] = "live"
    /\ LET st == stop(Cur, t)
       IN \/ /\ Commit([st EXCEPT !.cp[t] = EmptyPool, !.ip[t] = EmptyPool,
                                   !.gp[t] = EmptyPool, !.reqs[t] = {},
                                   !.opt[t] = NoPeer, !.scaler[t] = 0, !.ub = FALSE])
             /\ swarm' = [swarm EXCEPT ![t] = "destroyed"]
             /\ webseeds' = [webseeds EXCEPT ![t] = <<>>]
             /\ webseed' = [w \in WebseedIds |->
                              IF w \in Range(webseeds[t]) THEN NullWebseed ELSE webseed[w]]
             /\ is_endgame' = [is_endgame EXCEPT ![t] = FALSE]
             /\ endgame_left' = [endgame_left EXCEPT ![t] = {}]
          \* stop() has used a destroyed tr_peer_info: the program may end there
          \/ /\ st.ub
             /\ Commit([Cur EXCEPT !.crashed = TRUE])
             /\ UNCHANGED <<swarm, webseeds, webseed, is_endgame, endgame_left>>
    /\ UNCHANGED <<lock_depth, pc, now, blocklist, upload_slots, session_peer_limit, tor, incoming_handshakes, banned_remotes, port_msgs>>

\* the user changes a limit (tr_torrent::peer_limit(), tr_session::peerLimit())
SetPeerLimit(t, n) ==
    /\ ~crashed
    /\ swarm[t] = "live"
    /\ tor[t].peer_limit # n
    /\ tor' = [tor EXCEPT ![t].peer_limit = n]
    /\ UNCHANGED <<lock_depth, pc, now, crashed, blocklist, optimistic, optimistic_unchoke_time_scaler, upload_slots, is_endgame, endgame_left, session_peer_limit, swarm, is_running, info,
                   connectable_pool, incoming_pool, graveyard_pool, peer, peers, stats,
                   incoming_handshakes, outgoing_handshakes, outbound_candidates,
                   webseed, webseeds, active_requests, banned_remotes, port_msgs>>

SetSessionPeerLimit(n) ==
    /\ ~crashed
    /\ session_peer_limit # n
    /\ session_peer_limit' = n
    /\ UNCHANGED <<lock_depth, pc, now, crashed, blocklist, optimistic, optimistic_unchoke_time_scaler, upload_slots, is_endgame, endgame_left, swarm, tor, is_running, info,
                   connectable_pool, incoming_pool, graveyard_pool, peer, peers, stats,
                   incoming_handshakes, outgoing_handshakes, outbound_candidates,
                   webseed, webseeds, active_requests, banned_remotes, port_msgs>>

\* the clock moves
Tick ==
    /\ ~crashed
    /\ now + TickSecs <= MaxTicks * TickSecs
    /\ now' = now + TickSecs
    /\ UNCHANGED <<lock_depth, pc, crashed, blocklist, optimistic, optimistic_unchoke_time_scaler, upload_slots, is_endgame, endgame_left, session_peer_limit, swarm, tor, is_running, info,
                   connectable_pool, incoming_pool, graveyard_pool, peer, peers, stats,
                   incoming_handshakes, outgoing_handshakes, outbound_candidates,
                   webseed, webseeds, active_requests, banned_remotes, port_msgs>>

\* tr_time() moves on by a fraction of the request time-to-live
TtlTick ==
    /\ ~crashed
    /\ now + TtlTickSecs <= MaxTtlTicks * TtlTickSecs
    /\ now' = now + TtlTickSecs
    /\ UNCHANGED <<lock_depth, pc, crashed, blocklist, optimistic, optimistic_unchoke_time_scaler, upload_slots, is_endgame, endgame_left, session_peer_limit, swarm, tor, is_running, info,
                   connectable_pool, incoming_pool, graveyard_pool, peer, peers, stats,
                   incoming_handshakes, outgoing_handshakes, outbound_candidates,
                   webseed, webseeds, active_requests, banned_remotes, port_msgs>>

\* a tr_pex entry is [ip, port, flags]; port 0 is not valid for peers
PexEntries == [ip : IPs, port : 0..MaxPort, flags : SUBSET PexFlagBits]

PexIsUsable(from, pex) ==
    /\ pex.ip \notin blocklist
    /\ pex.port # EmptyPort
    /\ from # TR_PEER_FROM_INCOMING
    /\ (from # TR_PEER_FROM_PEX \/ ADDED_F_CONNECTABLE \in pex.flags)

\* the loop of tr_peerMgrAddPex: the states it can leave, each with n_used
RECURSIVE add_pex(_, _, _, _, _)
add_pex(st, t, from, pexs, n_used) ==
    IF pexs = <<>> THEN {[st |-> st, n_used |-> n_used]}
    ELSE IF PexIsUsable(from, Head(pexs))
    THEN UNION {add_pex(e.st, t, from, Tail(pexs), n_used + 1) :
                   e \in ensure_info_exists(st, t, <<Head(pexs).ip, Head(pexs).port>>,
                                            Head(pexs).flags, from, TRUE)}
    ELSE add_pex(st, t, from, Tail(pexs), n_used)

\* tr_peerMgrAddPex
AddPex(t, from, pexs) ==
    /\ ~crashed
    /\ swarm[t] = "live"
    /\ \E e \in add_pex(Cur, t, from, pexs, 0) : Commit(e.st)
    /\ UNCHANGED <<lock_depth, pc, now, blocklist, upload_slots, is_endgame, endgame_left, session_peer_limit, swarm, tor,
                   incoming_handshakes, webseed, webseeds, banned_remotes, port_msgs>>

\* the handshakes in flight, session-wide
HandshakesOpen(st) ==
    Cardinality(incoming_handshakes) + Cardinality(UNION {st.out[t] \X {t} : t \in Torrents})

\* tr_peer_socket::limit_reached: the session is out of sockets
limit_reached(st) == HandshakesOpen(st) >= MaxHandshakes

\* a variant of add_incoming that does not ask the blocklist
add_incoming_unfiltered(hs, sa) == hs \cup {sa}

\* the if/else chain of tr_peerMgrAddIncoming: a blocked address and an
\* address with a handshake in the table get their socket closed
add_incoming(hs, sa) ==
    IF sa[1] \in blocklist THEN hs
    ELSE IF sa \in hs THEN hs
    ELSE hs \cup {sa}

\* tr_peerMgrAddIncoming
AddIncoming(sa) ==
    /\ ~crashed
    /\ incoming_handshakes' = add_incoming(incoming_handshakes, sa)
    /\ UNCHANGED <<lock_depth, pc, now, crashed, blocklist, optimistic, optimistic_unchoke_time_scaler, upload_slots, is_endgame, endgame_left, session_peer_limit, swarm, tor, is_running,
                   info, connectable_pool, incoming_pool, graveyard_pool, peer, peers,
                   stats, outgoing_handshakes, outbound_candidates,
                   webseed, webseeds, active_requests, banned_remotes, port_msgs>>

\* the session hands over an accepted socket while it has sockets to spare
AcceptIncoming(sa) == ~limit_reached(Cur) /\ AddIncoming(sa)

\* the blocklist is reloaded or edited
BlocklistChanged(ips) ==
    /\ ~crashed
    /\ blocklist # ips
    /\ blocklist' = ips
    /\ UNCHANGED <<lock_depth, pc, now, crashed, optimistic, optimistic_unchoke_time_scaler, upload_slots, is_endgame, endgame_left, session_peer_limit, swarm, tor, is_running,
                   info, connectable_pool, incoming_pool, graveyard_pool, peer, peers,
                   stats, incoming_handshakes, outgoing_handshakes, outbound_candidates,
                   webseed, webseeds, active_requests, banned_remotes, port_msgs>>

\* tr_swarm::on_torrent_done, run when the torrent's completeness turns to
\* done: the peers' set_interested(false) touches nothing that is kept here
TorrentDone(t) ==
    /\ ~crashed
    /\ swarm[t] = "live"
    /\ ~tor[t].is_done
    /\ tor' = [tor EXCEPT ![t].is_done = TRUE]
    /\ UNCHANGED <<lock_depth, pc, now, crashed, blocklist, optimistic, optimistic_unchoke_time_scaler, upload_slots, is_endgame, endgame_left, session_peer_limit, swarm, is_running,
                   info, connectable_pool, incoming_pool, graveyard_pool, peer, peers,
                   stats, incoming_handshakes, outgoing_handshakes, outbound_candidates,
                   webseed, webseeds, active_requests, banned_remotes, port_msgs>>

\* tr_swarm::on_swarm_is_all_seeds: mark_peer_as_seed on every connectable entry
SwarmIsAllSeeds(t) ==
    /\ ~crashed
    /\ swarm[t] = "live"
    /\ info' = [i \in InfoIds |->
                  IF \E sa \in DOMAIN connectable_pool[t] : connectable_pool[t][sa] = i
                  THEN [info[i] EXCEPT !.seed = TRUE] ELSE info[i]]
    /\ UNCHANGED <<lock_depth, pc, now, crashed, blocklist, optimistic, optimistic_unchoke_time_scaler, upload_slots, is_endgame, endgame_left, session_peer_limit, swarm, tor, is_running,
                   connectable_pool, incoming_pool, graveyard_pool, peer, peers,
                   stats, incoming_handshakes, outgoing_handshakes, outbound_candidates,
                   webseed, webseeds, active_requests, banned_remotes, port_msgs>>

\* an incoming handshake ends; the remote peer chose the torrent (t = 0: unknown hash)
IncomingHandshakeDone(sa, t, ok, read_anything, is_utp) ==
    /\ ~crashed
    /\ sa \in incoming_handshakes
    /\ FreePeerIds(Cur) # {}
    /\ incoming_handshakes' = incoming_handshakes \ {sa}
    /\ \E e \in on_handshake_done(Cur, t, TRUE, sa, ok, read_anything, is_utp) :
          Commit(e.st)
    /\ UNCHANGED <<lock_depth, pc, now, blocklist, upload_slots, is_endgame, endgame_left, session_peer_limit, swarm, tor, webseed, webseeds,
                   banned_remotes, port_msgs>>

\* an outgoing handshake of swarm t ends
OutgoingHandshakeDone(sa, t, ok, read_anything, is_utp) ==
    /\ ~crashed
    /\ swarm[t] = "live"
    /\ sa \in outgoing_handshakes[t]
    /\ FreePeerIds(Cur) # {}
    /\ \E e \in on_handshake_done([Cur EXCEPT !.out[t] = @ \ {sa}], t, FALSE, sa,
                                  ok, read_anything, is_utp) :
          Commit(e.st)
    /\ UNCHANGED <<lock_depth, pc, now, blocklist, upload_slots, is_endgame, endgame_left, session_peer_limit, swarm, tor,
                   incoming_handshakes, webseed, webseeds, banned_remotes, port_msgs>>

\* a connected peer announces its listening port
ClientGotPort(t, p, port) ==
    /\ ~crashed
    /\ swarm[t] = "live"
    /\ p \in Range(peers[t])
    /\ port_msgs < MaxPortMsgs
    /\ port_msgs' = port_msgs + 1
    /\ Commit(client_got_port(Cur, t, p, port))
    /\ UNCHANGED <<lock_depth, pc, now, blocklist, upload_slots, is_endgame, endgame_left, session_peer_limit, swarm, tor,
                   incoming_handshakes, webseed, webseeds, banned_remotes>>


(***************************************************************************)
(* Reaping (disconnect_helpers) and the reconnect pulse.                   *)
(***************************************************************************)
\* std::lround(tor->peer_limit() * 0.9)
RelaxStrictnessIfFewerThan(limit) == (9 * limit + 5) \div 10

\* hi - (hi - lo) * strictness, truncated to time_t
IdleLimit(peer_count, limit) ==
    LET n == RelaxStrictnessIfFewerThan(limit)
        span == MaxUploadIdleSecs - MinUploadIdleSecs
    IN IF peer_count >= n THEN MinUploadIdleSecs
       ELSE MaxUploadIdleSecs - ((span * peer_count + n - 1) \div n)

shouldPeerBeClosed(st, t, p, peer_count) ==
    LET pi == st.info[st.peer[p].info]
        idle == idle_secs(pi, now)
    IN IF st.peer[p].do_purge THEN TRUE
       ELSE IF tor[t].is_done /\ st.peer[p].is_seed
       THEN ~tor[t].allows_pex \/ (IF idle < 0 THEN 0 ELSE idle) >= SeedIdleSecs
       ELSE idle >= 0 /\ idle > IdleLimit(peer_count, tor[t].peer_limit)

RECURSIVE close_each(_, _)
close_each(st, ps) ==
    IF ps = <<>> THEN st
    ELSE close_each(remove_peer(st, st.peer[Head(ps)].tor, Head(ps)), Tail(ps))

\* get_peers_to_close + close_bad_peers
close_bad_peers(st, t) ==
    close_each(st, SelectSeq(st.peers[t],
                             LAMBDA p : shouldPeerBeClosed(st, t, p, Len(st.peers[t]))))

\* a comparison that takes the oldest piece data for the most active
ComparePeerByOldestPieceData(st, a, b) ==
    IF st.peer[a].do_purge # st.peer[b].do_purge
    THEN (IF st.peer[a].do_purge THEN 1 ELSE -1)
    ELSE compare_by_piece_data_time(st.info[st.peer[a].info], st.info[st.peer[b].info])

\* ComparePeerByMostActive::compare
ComparePeerByMostActiveCompare(st, a, b) ==
    IF st.peer[a].do_purge # st.peer[b].do_purge
    THEN (IF st.peer[a].do_purge THEN 1 ELSE -1)
    ELSE -compare_by_piece_data_time(st.info[st.peer[a].info], st.info[st.peer[b].info])

ComparePeerByMostActive(st, a, b) == ComparePeerByMostActiveCompare(st, a, b) < 0

ComparePeerByLeastActive(st, a, b) == ComparePeerByMostActive(st, b, a)

\* the sequences of k distinct members of S that a partial sort under Less can put
\* first: sorted, and nothing left out goes strictly before something taken
FirstK(S, k, Less(_, _)) ==
    {q \in UNION {Perms(T) : T \in {U \in SUBSET S : Cardinality(U) = k}} :
        /\ \A i, j \in 1..k : i < j => ~Less(q[j], q[i])
        /\ \A x \in S \ Range(q) : \A i \in 1..k : ~Less(x, q[i])}

\* enforceSwarmPeerLimit: the states it can leave
enforceSwarmPeerLimit(st, t, max) ==
    LET n == peerCount(st, t)
    IN IF n <= max THEN {st}
       ELSE {close_each(st, q) :
                q \in FirstK(Range(st.peers[t]), n - max,
                             LAMBDA a, b : ComparePeerByLeastActive(st, a, b))}

AllPeersOf(st) == UNION {Range(st.peers[t]) : t \in SessionTorrents}

\* enforceSessionPeerLimit: keep the max most active, close the rest in the
\* order partial_sort happened to leave them
enforceSessionPeerLimit(st, max) ==
    IF PeerMsgsSize(st) <= max THEN {st}
    ELSE LET all == AllPeersOf(st)
         IN IF Cardinality(all) <= max THEN {st}
            ELSE UNION {{close_each(st, q) : q \in Perms(all \ Range(keep))} :
                           keep \in FirstK(all, max,
                                           LAMBDA a, b : ComparePeerByMostActive(st, a, b))}


(***************************************************************************)
(* Outbound candidates (connect_helpers).                                  *)
(***************************************************************************)
\* tr_swarm::peer_is_in_use
peer_is_in_use(st, t, pi) ==
    pi.connected \/ listen_socket_address(pi) \in st.out[t]

\* tr_peer_info::is_blocklisted: a memo of session->addressIsBlocked() that is
\* dropped whenever the blocklist changes, so it always equals the lookup
is_blocklisted(pi) == pi.addr \in blocklist

\* a variant of is_peer_interesting that lets a peer in use pass first
is_peer_interesting_in_use_first(st, t, pi) ==
    IF peer_is_in_use(st, t, pi) THEN TRUE
    ELSE IF tor[t].is_done /\ pi.seed THEN FALSE
    ELSE IF is_blocklisted(pi) THEN FALSE
    ELSE IF pi.banned THEN FALSE
    ELSE TRUE

\* get_peers_helpers::is_peer_interesting
is_peer_interesting(st, t, pi) ==
    IF tor[t].is_done /\ pi.seed THEN FALSE
    ELSE IF peer_is_in_use(st, t, pi) THEN TRUE
    ELSE IF is_blocklisted(pi) THEN FALSE
    ELSE IF pi.banned THEN FALSE
    ELSE TRUE

\* tr_peerMgrGetPeers, TR_PEERS_INTERESTING: the keys of the entries that go
\* into infos, before the list is cut to max_peer_count
InterestingPeers(st, t) ==
    {sa \in DOMAIN st.cp[t] : is_peer_interesting(st, t, st.info[st.cp[t][sa]])}

is_peer_candidate(st, t, pi) ==
    /\ pi.connectable # "no"
    /\ ~(tor[t].is_done /\ pi.seed)
    /\ ~peer_is_in_use(st, t, pi)
    /\ reconnect_interval_has_passed(pi, now)
    /\ ~is_blocklisted(pi)
    /\ ~pi.banned

\* getPeerCandidateScore: the packed 64-bit key, most significant field first.
\* addValToKey shifts the key left by the field's width and ors the value in, so
\* keys compare as the tuples of their fields do.
addValToKey(value, addme) == Append(value, addme)

torrentWasRecentlyStarted(t) == now - tor[t].start_date < 120

getPeerCandidateScore(t, pi, salt) ==
    LET k1 == addValToKey(<<>>, IF pi.fails # 0 THEN 1 ELSE 0)
        k2 == addValToKey(k1, pi.attempt)
        k3 == addValToKey(k2, CASE tor[t].priority = "high" -> 0
                                [] tor[t].priority = "normal" -> 1
                                [] OTHER -> 2)
        k4 == addValToKey(k3, IF torrentWasRecentlyStarted(t) THEN 0 ELSE 1)
        k5 == addValToKey(k4, IF tor[t].is_done THEN 1 ELSE 0)
        k6 == addValToKey(k5, IF pi.connectable = "yes" THEN 0 ELSE 1)
        k7 == addValToKey(k6, IF pi.seed THEN 0 ELSE 1)
        k8 == addValToKey(k7, pi.from_best)
    IN addValToKey(k8, salt)

RECURSIVE ScoreLess(_, _)
ScoreLess(a, b) ==
    IF a = <<>> THEN FALSE
    ELSE IF Head(a) # Head(b) THEN Head(a) < Head(b)
    ELSE ScoreLess(Tail(a), Tail(b))

\* tr_swarm::is_all_seeds
is_all_seeds(st, t) == \A k \in DOMAIN st.cp[t] : st.info[st.cp[t][k]].seed

\* the swarms get_peer_candidates does not skip
SwarmWantsPeers(st, t) ==
    /\ st.run[t]
    /\ ~(tor[t].is_done /\ is_all_seeds(st, t) /\ ~tor[t].allows_pex)
    /\ ~(tor[t].peer_limit <= peerCount(st, t))
    /\ ~(tor[t].is_done /\ tor[t].up_maxed)

CandidateKeys(st, t) ==
    IF SwarmWantsPeers(st, t)
    THEN {k \in DOMAIN st.cp[t] : is_peer_candidate(st, t, st.info[st.cp[t][k]])}
    ELSE {}

\* the candidates in the order the loops meet them: torrent by torrent, each
\* pool in the order its hash table happens to iterate
RECURSIVE CandidateLists(_, _)
CandidateLists(st, ts) ==
    IF ts = <<>> THEN {<<>>}
    ELSE {[i \in 1..Len(q) |-> <<Head(ts), q[i]>>] \o rest :
             q \in Perms(CandidateKeys(st, Head(ts))),
             rest \in CandidateLists(st, Tail(ts))}

Reverse(q) == [i \in 1..Len(q) |-> q[Len(q) + 1 - i]]

TorrentSeq == SetToSeq(SessionTorrents)

\* the candidates with the scores the loop gives them, one salt per candidate
\* from the tr_salt_shaker
ScoredCandidates(st) ==
    UNION {{[i \in DOMAIN all |->
                [score |-> getPeerCandidateScore(all[i][1],
                                                 st.info[st.cp[all[i][1]][all[i][2]]], salt[i]),
                 tor |-> all[i][1],
                 key |-> listen_socket_address(st.info[st.cp[all[i][1]][all[i][2]]])]]
            : salt \in [DOMAIN all -> 0..MaxSalt]}
           : all \in CandidateLists(st, TorrentSeq)}

\* the lists std::partial_sort can leave in front
BestCandidates(all, max) ==
    {[j \in 1..max |-> all[q[j]]] :
        q \in FirstK(DOMAIN all, max, LAMBDA a, b : ScoreLess(all[a].score, all[b].score))}

\* get_peer_candidates with the score of each entry kept: the vector is sorted
\* and cut only when it is longer than the list's capacity, then reversed
get_scored_candidates(st) ==
    IF (95 * session_peer_limit) \div 100 <= PeerMsgsSize(st) THEN {<<>>}
    ELSE UNION {
        IF OutboundCandidateListCapacity < Len(all)
        THEN {Reverse(q) : q \in BestCandidates(all, OutboundCandidateListCapacity)}
        ELSE {Reverse(all)}
        : all \in ScoredCandidates(st)}

\* get_peer_candidates: the lists of (torrent id, listen_socket_address of the
\* tr_peer_info) it can return
get_peer_candidates(st) ==
    {[i \in DOMAIN q |-> <<q[i].tor, q[i].key>>] : q \in get_scored_candidates(st)}

\* initiate_connection, given what the transport did
DialOutcomes == {"ok", "io_failed", "skip"}

initiate_connection(st, t, id, outcome) ==
    IF limit_reached(st) \/ outcome = "skip" THEN st
    ELSE LET st1 == IF outcome = "io_failed"
                    THEN [st EXCEPT !.info[id].connectable = "no",
                                    !.info[id] = on_connection_failed(@)]
                    ELSE [st EXCEPT !.out[t] = @ \cup {listen_socket_address(st.info[id])}]
         IN [st1 EXCEPT !.info[id].attempt = now]

\* the loop of make_new_peer_connections over the popped candidates: the states
\* it can leave, the transport answering each dial with one of outcomes
RECURSIVE dial_each(_, _, _)
dial_each(sts, popped, outcomes) ==
    IF popped = <<>> THEN sts
    ELSE LET t == Head(popped)[1]
             sa == Head(popped)[2]
         IN dial_each(
               UNION {LET id == IF t \in SessionTorrents
                                THEN get_existing_peer_info(st, t, sa) ELSE NoInfo
                      IN IF id = NoInfo THEN {st}
                         ELSE {initiate_connection(st, t, id, o) : o \in outcomes}
                      : st \in sts},
               Tail(popped), outcomes)

\* a make_new_peer_connections that consumes the whole list in one pass
make_new_peer_connections_unthrottled(st, outcomes) ==
    UNION {{[st2 EXCEPT !.cands = <<>>] : st2 \in dial_each({st}, Reverse(cands), outcomes)}
           : cands \in IF st.cands = <<>> THEN get_peer_candidates(st) ELSE {st.cands}}

\* tr_peerMgr::make_new_peer_connections: the states it can leave
make_new_peer_connections(st, outcomes) ==
    UNION {
        LET n_this_pass == Min2(Len(cands), MaxConnectionsPerPulse)
            popped == Reverse(SubSeq(cands, Len(cands) - n_this_pass + 1, Len(cands)))
        IN {[st2 EXCEPT !.cands = SubSeq(cands, 1, Len(cands) - n_this_pass)] :
               st2 \in dial_each({st}, popped, outcomes)}
        : cands \in IF st.cands = <<>> THEN get_peer_candidates(st) ELSE {st.cands}}

\* the first loop of reconnectPulse
RECURSIVE reap_each(_, _)
reap_each(st, ts) ==
    IF ts = <<>> THEN st
    ELSE reap_each(IF ~st.run[Head(ts)] THEN remove_all_peers(st, Head(ts))
                   ELSE close_bad_peers(st, Head(ts)),
                   Tail(ts))

\* the second loop of reconnectPulse
RECURSIVE enforce_each(_, _)
enforce_each(sts, ts) ==
    IF ts = <<>> THEN sts
    ELSE enforce_each(
            UNION {IF st.run[Head(ts)]
                   THEN enforceSwarmPeerLimit(st, Head(ts), tor[Head(ts)].peer_limit)
                   ELSE {st} : st \in sts},
            Tail(ts))

\* tr_peerMgr::reconnectPulse, up to the dialing
reconnect_reap(st) ==
    UNION {enforceSessionPeerLimit(st2, session_peer_limit) :
              st2 \in enforce_each({reap_each(st, TorrentSeq)}, TorrentSeq)}

reconnectPulse(st, outcomes) ==
    UNION {make_new_peer_connections(st3, outcomes) : st3 \in reconnect_reap(st)}

\* tr_peerMgr::bandwidthPulse, which ends in reconnectPulse; outcomes is what the
\* transport may answer to a dial
ReconnectPulse(outcomes) ==
    /\ ~crashed
    /\ \E st \in reconnectPulse(Cur, outcomes) : Commit(st)
    /\ UNCHANGED <<lock_depth, pc, now, blocklist, upload_slots, is_endgame, endgame_left, session_peer_limit, swarm, tor,
                   incoming_handshakes, webseed, webseeds, banned_remotes, port_msgs>>


(***************************************************************************)
(* Peer events and request bookkeeping.                                    *)
(***************************************************************************)
\* the tr_peer pointers a swarm can be handed: its connected peers and its webseeds
PeersOf(t) == {BtPeer(p) : p \in Range(peers[t])} \cup {WsPeer(w) : w \in Range(webseeds[t])}

\* tr_peerMgrClientSentRequests for one block; ActiveRequests::add keeps the
\* first entry of a (block, peer) pair.  Blocks exist once the metainfo is known.
ClientSentRequests(t, who, block) ==
    /\ ~crashed
    /\ swarm[t] = "live"
    /\ tor[t].has_metainfo
    /\ who \in PeersOf(t)
    /\ ~\E r \in active_requests[t] : r.block = block /\ r.peer = who
    /\ active_requests' = [active_requests EXCEPT ![t] =
                              @ \cup {[block |-> block, peer |-> who, sent |-> now]}]
    /\ UNCHANGED <<lock_depth, pc, now, crashed, blocklist, optimistic, optimistic_unchoke_time_scaler, upload_slots, is_endgame, endgame_left, session_peer_limit, swarm, tor, is_running,
                   info, connectable_pool, incoming_pool, graveyard_pool, peer, peers,
                   stats, incoming_handshakes, outgoing_handshakes, outbound_candidates,
                   webseed, webseeds, banned_remotes, port_msgs>>

\* tr_torrent::left_until_done(), in blocks: every block the torrent lacks
left_until_done(t) ==
    IF tor[t].has_metainfo THEN Cardinality(Blocks \ tor[t].have) ELSE 0

\* a variant of updateEndgame that asks for more requested than is left
updateEndgame_strict(n_requests, left) == n_requests > left

\* tr_swarm::updateEndgame: both sides are counted in blocks, the source
\* multiplies the number of requests by tr_block_info::BlockSize
updateEndgame(n_requests, left) == n_requests >= left

\* tr_peerMgrGetNextRequests: the endgame flag is recomputed before the
\* wishlist is asked; the wishlist itself changes nothing here
GetNextRequests(t, who) ==
    /\ ~crashed
    /\ swarm[t] = "live"
    /\ tor[t].has_metainfo
    /\ who \in PeersOf(t)
    /\ LET v == updateEndgame(Cardinality(active_requests[t]), left_until_done(t))
       IN /\ is_endgame' = [is_endgame EXCEPT ![t] = v]
          /\ endgame_left' = [endgame_left EXCEPT ![t] =
                                 IF v /\ ~is_endgame[t] THEN {left_until_done(t)} ELSE @]
    /\ UNCHANGED <<lock_depth, pc, now, crashed, blocklist, optimistic, optimistic_unchoke_time_scaler, upload_slots, session_peer_limit, swarm, tor, is_running,
                   info, connectable_pool, incoming_pool, graveyard_pool, peer, peers,
                   stats, incoming_handshakes, outgoing_handshakes, outbound_candidates,
                   webseed, webseeds, active_requests, banned_remotes, port_msgs>>

\* an ActiveRequests::remove(block, peer) that forgets the peer
RequestsRemoveBlock(reqs, block, who) == {r \in reqs : r.block # block}

\* ActiveRequests::remove(block, peer)
RequestsRemovePair(reqs, block, who) == {r \in reqs : ~(r.block = block /\ r.peer = who)}

\* peer_callback_bt, case ClientGotChoke: maybeSendCancelRequest is not called
client_got_choke(reqs, who) == [reqs |-> RequestsRemovePeer(reqs, who), cancels |-> {}]

\* peer_callback_common, case ClientGotRej: maybeSendCancelRequest is not called
client_got_rej(reqs, who, block) ==
    [reqs |-> RequestsRemovePair(reqs, block, who), cancels |-> {}]

\* peer_callback_bt, case ClientGotChoke
ClientGotChoke(t, p) ==
    /\ ~crashed
    /\ swarm[t] = "live"
    /\ p \in Range(peers[t])
    /\ \E r \in active_requests[t] : r.peer = BtPeer(p)
    /\ active_requests' = [active_requests EXCEPT ![t] = client_got_choke(@, BtPeer(p)).reqs]
    /\ UNCHANGED <<lock_depth, pc, now, crashed, blocklist, optimistic, optimistic_unchoke_time_scaler, upload_slots, is_endgame, endgame_left, session_peer_limit, swarm, tor, is_running,
                   info, connectable_pool, incoming_pool, graveyard_pool, peer, peers,
                   stats, incoming_handshakes, outgoing_handshakes, outbound_candidates,
                   webseed, webseeds, banned_remotes, port_msgs>>

\* peer_callback_common, case ClientGotRej
ClientGotRej(t, who, block) ==
    /\ ~crashed
    /\ swarm[t] = "live"
    /\ who \in PeersOf(t)
    /\ \E r \in active_requests[t] : r.block = block /\ r.peer = who
    /\ active_requests' = [active_requests EXCEPT ![t] = client_got_rej(@, who, block).reqs]
    /\ UNCHANGED <<lock_depth, pc, now, crashed, blocklist, optimistic, optimistic_unchoke_time_scaler, upload_slots, is_endgame, endgame_left, session_peer_limit, swarm, tor, is_running,
                   info, connectable_pool, incoming_pool, graveyard_pool, peer, peers,
                   stats, incoming_handshakes, outgoing_handshakes, outbound_candidates,
                   webseed, webseeds, banned_remotes, port_msgs>>

\* the tr_peer pointer nullptr
NullTrPeer == <<"none", 0>>

\* a maybeSendCancelRequest that mutes nobody
maybeSendCancelRequestToAll(who, block, muted) ==
    IF who[1] = "bt" THEN {<<who, block>>} ELSE {}

\* tr_swarm::maybeSendCancelRequest: the CANCEL messages the call sends, as
\* (peer, block); the dynamic_cast leaves the webseeds out
maybeSendCancelRequest(who, block, muted) ==
    IF who[1] = "bt" /\ who # muted THEN {<<who, block>>} ELSE {}

\* tr_swarm::cancelAllRequestsForBlock: ActiveRequests::remove(block) takes
\* the pairs of the block out and returns their peers
cancelAllRequestsForBlock(reqs, block, no_notify) ==
    LET removed == {r.peer : r \in {x \in reqs : x.block = block}}
    IN [reqs |-> {r \in reqs : r.block # block},
        cancels |-> UNION {maybeSendCancelRequest(who, block, no_notify) : who \in removed}]

\* peer_callback_common, case ClientGotBlock, statement by statement;
\* at_got_block is what has been done when tr_torrentGotBlock is called
client_got_block(reqs, have, who, block) ==
    LET c == cancelAllRequestsForBlock(reqs, block, who)
    IN [reqs |-> c.reqs,
        cancels |-> c.cancels,
        at_got_block |-> [reqs |-> c.reqs, cancels |-> c.cancels, have |-> have],
        have |-> have \cup {block}]

\* peer_callback_common, case ClientGotBlock: cancelAllRequestsForBlock; the
\* tr_peerMsgs that delivered the block has set its blame bit for the piece;
\* tr_torrentGotBlock records the block as had
ClientGotBlock(t, who, block) ==
    /\ ~crashed
    /\ swarm[t] = "live"
    /\ tor[t].has_metainfo
    /\ who \in PeersOf(t)
    /\ LET out == client_got_block(active_requests[t], tor[t].have, who, block)
       IN /\ active_requests' = [active_requests EXCEPT ![t] = out.reqs]
          /\ tor' = [tor EXCEPT ![t].have = out.have]
    /\ peer' = IF who[1] = "bt" THEN [peer EXCEPT ![who[2]].blame = TRUE] ELSE peer
    /\ UNCHANGED <<lock_depth, pc, now, crashed, blocklist, optimistic, optimistic_unchoke_time_scaler, upload_slots, is_endgame, endgame_left, session_peer_limit, swarm, is_running,
                   info, connectable_pool, incoming_pool, graveyard_pool, peers,
                   stats, incoming_handshakes, outgoing_handshakes, outbound_candidates,
                   webseed, webseeds, banned_remotes, port_msgs>>

\* ActiveRequests::sentBefore: the pairs sent earlier than the given time
sentBefore(reqs, when) == {r \in reqs : r.sent < when}

\* a cancelOldRequests that also drops the requests exactly RequestTtlSecs old
cancelOldRequestsInclusive(reqs) ==
    LET old == sentBefore(reqs, now - RequestTtlSecs + 1)
    IN [reqs |-> reqs \ old,
        cancels |-> UNION {maybeSendCancelRequest(r.peer, r.block, NullTrPeer) : r \in old}]

\* tr_swarm::cancelOldRequests: nobody is muted (nullptr)
cancelOldRequests(reqs) ==
    LET old == sentBefore(reqs, now - RequestTtlSecs)
    IN [reqs |-> reqs \ old,
        cancels |-> UNION {maybeSendCancelRequest(r.peer, r.block, NullTrPeer) : r \in old}]

\* tr_peerMgr::refillUpkeep
RefillUpkeep ==
    /\ ~crashed
    /\ active_requests' = [t \in Torrents |->
                              IF t \in SessionTorrents
                              THEN cancelOldRequests(active_requests[t]).reqs
                              ELSE active_requests[t]]
    /\ UNCHANGED <<lock_depth, pc, now, crashed, blocklist, optimistic, optimistic_unchoke_time_scaler, upload_slots, is_endgame, endgame_left, session_peer_limit, swarm, tor, is_running,
                   info, connectable_pool, incoming_pool, graveyard_pool, peer, peers,
                   stats, incoming_handshakes, outgoing_handshakes, outbound_candidates,
                   webseed, webseeds, banned_remotes, port_msgs>>

\* the tr_peer destructor of a webseed
destroy_webseed(reqs, w) ==
    IF webseed[w].swarm_set THEN RequestsRemovePeer(reqs, WsPeer(w)) ELSE reqs

RECURSIVE destroy_webseeds(_, _)
destroy_webseeds(reqs, ws) ==
    IF ws = <<>> THEN reqs ELSE destroy_webseeds(destroy_webseed(reqs, Head(ws)), Tail(ws))

\* tr_swarm::on_got_metainfo: rebuildWebseeds, then the peers that turn out
\* to be seeds mark their peer info
GotMetainfo(t, n_webseeds) ==
    /\ ~crashed
    /\ swarm[t] = "live"
    /\ ~tor[t].has_metainfo
    /\ n_webseeds <= NumWebseeds
    /\ LET old == webseeds[t]
           cleared == [w \in WebseedIds |-> IF w \in Range(old) THEN NullWebseed ELSE webseed[w]]
           free == {w \in WebseedIds : cleared[w].tor = 0}
       IN /\ Cardinality(free) >= n_webseeds
          /\ \E fresh \in {q \in UNION {Perms(T) : T \in SUBSET free} : Len(q) = n_webseeds} :
                /\ webseeds' = [webseeds EXCEPT ![t] = fresh]
                /\ webseed' = [w \in WebseedIds |->
                                 IF w \in Range(fresh) THEN [tor |-> t, swarm_set |-> TRUE]
                                 ELSE cleared[w]]
          /\ active_requests' = [active_requests EXCEPT ![t] = destroy_webseeds(@, old)]
    /\ tor' = [tor EXCEPT ![t].has_metainfo = TRUE, ![t].webseed_count = n_webseeds]
    /\ info' = [i \in InfoIds |->
                  IF \E p \in Range(peers[t]) : peer[p].is_seed /\ peer[p].info = i
                  THEN [info[i] EXCEPT !.seed = TRUE] ELSE info[i]]
    /\ UNCHANGED <<lock_depth, pc, now, crashed, blocklist, optimistic, optimistic_unchoke_time_scaler, upload_slots, is_endgame, endgame_left, session_peer_limit, swarm, is_running,
                   connectable_pool, incoming_pool, graveyard_pool, peer, peers,
                   stats, incoming_handshakes, outgoing_handshakes, outbound_candidates,
                   banned_remotes, port_msgs>>

\* an addStrike that bans one strike early
addStrikeOneEarly(pr, inf, p) ==
    IF pr[p].strikes + 1 >= MaxBadPiecesPerPeer - 1
    THEN [peer |-> [pr EXCEPT ![p].strikes = @ + 1, ![p].do_purge = TRUE],
          info |-> [inf EXCEPT ![pr[p].info] = ban(@)]]
    ELSE [peer |-> [pr EXCEPT ![p].strikes = @ + 1], info |-> inf]

\* tr_swarm::addStrike
addStrike(pr, inf, p) ==
    IF pr[p].strikes + 1 >= MaxBadPiecesPerPeer
    THEN [peer |-> [pr EXCEPT ![p].strikes = @ + 1, ![p].do_purge = TRUE],
          info |-> [inf EXCEPT ![pr[p].info] = ban(@)]]
    ELSE [peer |-> [pr EXCEPT ![p].strikes = @ + 1], info |-> inf]

RECURSIVE strike_each(_, _, _)
strike_each(pr, inf, ps) ==
    IF ps = <<>> THEN [peer |-> pr, info |-> inf]
    ELSE LET r == IF pr[Head(ps)].blame THEN addStrike(pr, inf, Head(ps))
                  ELSE [peer |-> pr, info |-> inf]
         IN strike_each(r.peer, r.info, Tail(ps))

\* tr_swarm::on_got_bad_piece
GotBadPiece(t) ==
    /\ ~crashed
    /\ swarm[t] = "live"
    /\ \E p \in Range(peers[t]) : peer[p].blame /\ peer[p].strikes < MaxBadPiecesPerPeer
    /\ LET r == strike_each(peer, info, peers[t])
       IN /\ peer' = r.peer
          /\ info' = r.info
          /\ banned_remotes' = banned_remotes \cup
                {<<t, peer[p].sa>> : p \in {q \in Range(peers[t]) :
                     peer[q].blame /\ peer[q].strikes + 1 >= MaxBadPiecesPerPeer}}
    /\ UNCHANGED <<lock_depth, pc, now, crashed, blocklist, optimistic, optimistic_unchoke_time_scaler, upload_slots, is_endgame, endgame_left, session_peer_limit, swarm, tor, is_running,
                   connectable_pool, incoming_pool, graveyard_pool, peers,
                   stats, incoming_handshakes, outgoing_handshakes, outbound_candidates,
                   webseed, webseeds, active_requests, port_msgs>>

\* peer_callback_bt, cases ClientSentPieceData and ClientGotPieceData
ClientPieceData(t, p) ==
    /\ ~crashed
    /\ swarm[t] = "live"
    /\ p \in Range(peers[t])
    /\ info[peer[p].info].piece # now
    /\ info' = [info EXCEPT ![peer[p].info].piece = now]
    /\ UNCHANGED <<lock_depth, pc, now, crashed, blocklist, optimistic, optimistic_unchoke_time_scaler, upload_slots, is_endgame, endgame_left, session_peer_limit, swarm, tor, is_running,
                   connectable_pool, incoming_pool, graveyard_pool, peer, peers,
                   stats, incoming_handshakes, outgoing_handshakes, outbound_candidates,
                   webseed, webseeds, active_requests, banned_remotes, port_msgs>>

\* the error codes a peer's Error event can carry
PurgeErrors == {"ERANGE", "EMSGSIZE", "ENOTCONN"}
ErrorCodes == PurgeErrors \cup {"ECONNRESET", "ETIMEDOUT"}

\* peer_callback_common, case Error
peer_error(pr, p, err) ==
    IF err \in PurgeErrors THEN [pr EXCEPT ![p].do_purge = TRUE] ELSE pr

\* peer_callback_common, case Error; with a code other than ERANGE, EMSGSIZE
\* and ENOTCONN the event is only logged
PeerError(t, p) ==
    /\ ~crashed
    /\ swarm[t] = "live"
    /\ p \in Range(peers[t])
    /\ ~peer[p].do_purge
    /\ \E err \in ErrorCodes :
          /\ peer_error(peer, p, err) # peer
          /\ peer' = peer_error(peer, p, err)
    /\ UNCHANGED <<lock_depth, pc, now, crashed, blocklist, optimistic, optimistic_unchoke_time_scaler, upload_slots, is_endgame, endgame_left, session_peer_limit, swarm, tor, is_running,
                   info, connectable_pool, incoming_pool, graveyard_pool, peers,
                   stats, incoming_handshakes, outgoing_handshakes, outbound_candidates,
                   webseed, webseeds, active_requests, banned_remotes, port_msgs>>


(***************************************************************************)
(* Rechoking (rechoke_uploads_helpers).                                    *)
(***************************************************************************)
\* ChokeData::compare: higher rate first, then the unchoked, then the salt
ChokeDataCompare(a, b) ==
    IF a.rate # b.rate THEN -Sign(a.rate - b.rate)
    ELSE IF a.was_choked # b.was_choked THEN (IF a.was_choked THEN 1 ELSE -1)
    ELSE Sign(a.salt - b.salt)

\* the orders std::sort can leave the vector in
SortedChokeData(items) ==
    {q \in Perms(items) :
        \A i, j \in 1..Len(q) : i < j => ChokeDataCompare(q[j], q[i]) >= 0}

\* a first loop that stops one interested peer late
RECURSIVE checked_choke_count_late(_, _, _)
checked_choke_count_late(sorted, i, unchoked_interested) ==
    IF i > Len(sorted) \/ unchoked_interested > upload_slots THEN i - 1
    ELSE checked_choke_count_late(sorted, i + 1,
                                  unchoked_interested + (IF sorted[i].is_interested THEN 1 ELSE 0))

\* the first loop over the sorted vector: how many items it looks at before
\* unchoked_interested reaches the upload slots
RECURSIVE checked_choke_count(_, _, _)
checked_choke_count(sorted, i, unchoked_interested) ==
    IF i > Len(sorted) \/ unchoked_interested >= upload_slots THEN i - 1
    ELSE checked_choke_count(sorted, i + 1,
                             unchoked_interested + (IF sorted[i].is_interested THEN 1 ELSE 0))

\* a first branch that lets seeds into the reshuffle
ChokedOutrightUnlessSeed(st, t) ==
    {p \in Range(st.peers[t]) : ~tor[t].can_upload}

\* the peers the first branches of the loop choke outright: seeds, and
\* everyone when the torrent cannot upload
ChokedOutright(st, t) ==
    {p \in Range(st.peers[t]) : st.peer[p].is_seed \/ ~tor[t].can_upload}

\* a reshuffle that does not spare the optimistic peer
ReshuffledWithOptimistic(st, t, opt) ==
    Range(st.peers[t]) \ ChokedOutright(st, t)

\* the peers that go into the vector: "else if (peer != s->optimistic)"
Reshuffled(st, t, opt) ==
    {p \in Range(st.peers[t]) \ ChokedOutright(st, t) : p # opt}

\* a first loop that unchokes whatever the upstream bandwidth
ItemIsUnchoked(is_maxed_out, was_choked) == FALSE

\* "item.is_choked = is_maxed_out ? item.was_choked : false"
ItemIsChoked(is_maxed_out, was_choked) == IF is_maxed_out THEN was_choked ELSE FALSE

\* a countdown that gives the optimistic peer up one call early
optimistic_countdown_early(st, t) ==
    IF st.scaler[t] > 1 THEN [st EXCEPT !.scaler[t] = @ - 1]
    ELSE [st EXCEPT !.opt[t] = NoPeer]

\* "if (s->optimistic_unchoke_time_scaler > 0) --scaler; else s->optimistic = nullptr;"
optimistic_countdown(st, t) ==
    IF st.scaler[t] > 0 THEN [st EXCEPT !.scaler[t] = @ - 1]
    ELSE [st EXCEPT !.opt[t] = NoPeer]

\* rechokeUploads: the states it can leave, given the rate and the salt of
\* each peer; tr_rand_int picks the optimistic peer
rechokeUploads(st, t, rate, salt) ==
    LET is_maxed_out == tor[t].up_maxed
        st1 == optimistic_countdown(st, t)
        direct == ChokedOutright(st, t)
        listed == Reshuffled(st, t, st1.opt[t])
        items == {[msgs |-> p, rate |-> rate[p], salt |-> salt[p],
                   is_interested |-> st.peer[p].interested,
                   was_choked |-> st.peer[p].choked] : p \in listed}
    IN UNION {
        LET n == checked_choke_count(sorted, 1, 0)
            rand_pool == IF st1.opt[t] = NoPeer /\ ~is_maxed_out /\ n < Len(sorted)
                         THEN {i \in (n + 1)..Len(sorted) : sorted[i].is_interested}
                         ELSE {}
        IN {LET is_choked == [i \in 1..Len(sorted) |->
                                IF i = c THEN FALSE
                                ELSE IF i <= n
                                THEN ItemIsChoked(is_maxed_out, sorted[i].was_choked)
                                ELSE TRUE]
                st2 == IF c = 0 THEN st1
                       ELSE [st1 EXCEPT !.opt[t] = sorted[c].msgs,
                                        !.scaler[t] = OptimisticUnchokeMultiplier]
            IN [st2 EXCEPT !.peer = [p \in PeerIds |->
                   IF p \in direct THEN [st1.peer[p] EXCEPT !.choked = TRUE]
                   ELSE IF \E i \in 1..Len(sorted) : sorted[i].msgs = p
                   THEN [st1.peer[p] EXCEPT !.choked =
                            is_choked[CHOOSE i \in 1..Len(sorted) : sorted[i].msgs = p]]
                   ELSE st1.peer[p]]]
            : c \in IF rand_pool = {} THEN {0} ELSE rand_pool}
        : sorted \in SortedChokeData(items)}

\* the loop of tr_peerMgr::rechokePulse (tr_torrentCheckSeedLimit and
\* updateInterest touch nothing the model keeps)
RECURSIVE rechoke_each(_, _)
rechoke_each(sts, ts) ==
    IF ts = <<>> THEN sts
    ELSE rechoke_each(
            UNION {IF st.run[Head(ts)] /\ st.stats[Head(ts)].peer_count > 0
                   THEN UNION {rechokeUploads(st, Head(ts), rate, salt) :
                                  rate \in [PeerIds -> 0..MaxRate],
                                  salt \in [PeerIds -> 0..MaxSalt]}
                   ELSE {st} : st \in sts},
            Tail(ts))

\* tr_peerMgr::rechokePulse
RechokePulse ==
    /\ ~crashed
    /\ \E st \in rechoke_each({Cur}, TorrentSeq) : Commit(st)
    /\ UNCHANGED <<lock_depth, pc, now, blocklist, upload_slots, is_endgame, endgame_left, session_peer_limit, swarm, tor,
                   incoming_handshakes, webseed, webseeds, banned_remotes, port_msgs>>

\* the remote peer tells us it is, or is no longer, interested
\* (tr_peerMsgs::peer_is_interested)
PeerSetInterested(t, p, value) ==
    /\ ~crashed
    /\ swarm[t] = "live"
    /\ p \in Range(peers[t])
    /\ peer[p].interested # value
    /\ peer' = [peer EXCEPT ![p].interested = value]
    /\ UNCHANGED <<lock_depth, pc, now, crashed, blocklist, optimistic, optimistic_unchoke_time_scaler,
                   upload_slots, is_endgame, endgame_left, session_peer_limit, swarm, tor, is_running,
                   info, connectable_pool, incoming_pool, graveyard_pool, peers,
                   stats, incoming_handshakes, outgoing_handshakes, outbound_candidates,
                   webseed, webseeds, active_requests, banned_remotes, port_msgs>>

\* the remote peer's bitfield fills up (tr_peerMsgs::isSeed)
PeerBecameSeed(t, p) ==
    /\ ~crashed
    /\ swarm[t] = "live"
    /\ p \in Range(peers[t])
    /\ ~peer[p].is_seed
    /\ peer' = [peer EXCEPT ![p].is_seed = TRUE]
    /\ UNCHANGED <<lock_depth, pc, now, crashed, blocklist, optimistic, optimistic_unchoke_time_scaler,
                   upload_slots, is_endgame, endgame_left, session_peer_limit, swarm, tor, is_running,
                   info, connectable_pool, incoming_pool, graveyard_pool, peers,
                   stats, incoming_handshakes, outgoing_handshakes, outbound_candidates,
                   webseed, webseeds, active_requests, banned_remotes, port_msgs>>

\* tr_torrent::client_can_upload() and tr_bandwidth::is_maxed_out(TR_UP) change
SetUploadState(t, can_upload, up_maxed) ==
    /\ ~crashed
    /\ swarm[t] = "live"
    /\ <<tor[t].can_upload, tor[t].up_maxed>> # <<can_upload, up_maxed>>
    /\ tor' = [tor EXCEPT ![t].can_upload = can_upload, ![t].up_maxed = up_maxed]
    /\ UNCHANGED <<lock_depth, pc, now, crashed, blocklist, optimistic, optimistic_unchoke_time_scaler,
                   upload_slots, is_endgame, endgame_left, session_peer_limit, swarm, is_running,
                   info, connectable_pool, incoming_pool, graveyard_pool, peer, peers,
                   stats, incoming_handshakes, outgoing_handshakes, outbound_candidates,
                   webseed, webseeds, active_requests, banned_remotes, port_msgs>>

\* the user changes session->uploadSlotsPerTorrent()
SetUploadSlots(n) ==
    /\ ~crashed
    /\ upload_slots # n
    /\ upload_slots' = n
    /\ UNCHANGED <<lock_depth, pc, now, crashed, blocklist, optimistic, optimistic_unchoke_time_scaler,
                   is_endgame, endgame_left, session_peer_limit, swarm, tor, is_running,
                   info, connectable_pool, incoming_pool, graveyard_pool, peer, peers,
                   stats, incoming_handshakes, outgoing_handshakes, outbound_candidates,
                   webseed, webseeds, active_requests, banned_remotes, port_msgs>>


(***************************************************************************)
(* The session lock.  An entry point is entered by a thread that does not  *)
(* hold the lock: events and timers come from the reactor, calls from the  *)
(* collaborators.  Its steps are the taking of the lock, where the source  *)
(* takes it, what it does to the state before and after, and the release   *)
(* at the end of the scope.                                                *)
(***************************************************************************)
Call(op, arg, first) ==
    /\ ~crashed
    /\ pc = Idle
    /\ pc' = [op |-> op, at |-> first, arg |-> arg]
    /\ UNCHANGED <<lock_depth, now, crashed, blocklist, optimistic, optimistic_unchoke_time_scaler,
                   upload_slots, is_endgame, endgame_left, session_peer_limit, swarm, tor,
                   is_running, info, connectable_pool, incoming_pool, graveyard_pool, peer,
                   peers, stats, incoming_handshakes, outgoing_handshakes,
                   outbound_candidates, webseed, webseeds, active_requests, banned_remotes,
                   port_msgs>>

\* auto const lock = unique_lock()
AcquireLock ==
    /\ pc.at = "lock"
    /\ lock_depth' = lock_depth + 1
    /\ pc' = [pc EXCEPT !.at = "body"]
    /\ UNCHANGED <<now, crashed, blocklist, optimistic, optimistic_unchoke_time_scaler,
                   upload_slots, is_endgame, endgame_left, session_peer_limit, swarm, tor,
                   is_running, info, connectable_pool, incoming_pool, graveyard_pool, peer,
                   peers, stats, incoming_handshakes, outgoing_handshakes,
                   outbound_candidates, webseed, webseeds, active_requests, banned_remotes,
                   port_msgs>>

\* the end of the scope of the lock, and of the entry point
ReleaseLock ==
    /\ pc.at = "unlock"
    /\ lock_depth' = lock_depth - 1
    /\ pc' = Idle
    /\ UNCHANGED <<now, crashed, blocklist, optimistic, optimistic_unchoke_time_scaler,
                   upload_slots, is_endgame, endgame_left, session_peer_limit, swarm, tor,
                   is_running, info, connectable_pool, incoming_pool, graveyard_pool, peer,
                   peers, stats, incoming_handshakes, outgoing_handshakes,
                   outbound_candidates, webseed, webseeds, active_requests, banned_remotes,
                   port_msgs>>

\* where the entry point goes after its work: to the end of the scope of its
\* lock, or out if it took none
Done == IF lock_depth > 0 THEN [pc EXCEPT !.at = "unlock"] ELSE Idle

\* tr_peerMgrAddIncoming below its lock
RunAddIncoming ==
    /\ pc.op = "tr_peerMgrAddIncoming" /\ pc.at = "body"
    /\ incoming_handshakes' = add_incoming(incoming_handshakes, pc.arg[1])
    /\ pc' = Done
    /\ UNCHANGED <<lock_depth, now, crashed, blocklist, optimistic, optimistic_unchoke_time_scaler,
                   upload_slots, is_endgame, endgame_left, session_peer_limit, swarm, tor,
                   is_running, info, connectable_pool, incoming_pool, graveyard_pool, peer,
                   peers, stats, outgoing_handshakes, outbound_candidates, webseed, webseeds,
                   active_requests, banned_remotes, port_msgs>>

\* on_handshake_done of an incoming handshake, up to its lock: the handshake
\* leaves incoming_handshakes
EraseHandshake ==
    /\ pc.op = "on_handshake_done" /\ pc.at = "erase"
    /\ incoming_handshakes' = incoming_handshakes \ {pc.arg[1]}
    /\ pc' = [pc EXCEPT !.at = "lock"]
    /\ UNCHANGED <<lock_depth, now, crashed, blocklist, optimistic, optimistic_unchoke_time_scaler,
                   upload_slots, is_endgame, endgame_left, session_peer_limit, swarm, tor,
                   is_running, info, connectable_pool, incoming_pool, graveyard_pool, peer,
                   peers, stats, outgoing_handshakes, outbound_candidates, webseed, webseeds,
                   active_requests, banned_remotes, port_msgs>>

\* on_handshake_done below its lock
RunHandshakeDone ==
    /\ pc.op = "on_handshake_done" /\ pc.at = "body"
    /\ \E e \in on_handshake_done(Cur, pc.arg[2], TRUE, pc.arg[1], pc.arg[3], pc.arg[3], FALSE) :
          Commit(e.st)
    /\ pc' = Done
    /\ UNCHANGED <<lock_depth, now, blocklist, upload_slots, is_endgame, endgame_left,
                   session_peer_limit, swarm, tor, incoming_handshakes, webseed, webseeds,
                   banned_remotes, port_msgs>>

\* tr_peerMgrClientSentRequests, which takes no lock
RunClientSentRequests ==
    /\ pc.op = "tr_peerMgrClientSentRequests" /\ pc.at = "body"
    /\ LET t == pc.arg[1]
           who == pc.arg[2]
           block == pc.arg[3]
       IN active_requests' = [active_requests EXCEPT ![t] =
             IF \E r \in @ : r.block = block /\ r.peer = who THEN @
             ELSE @ \cup {[block |-> block, peer |-> who, sent |-> now]}]
    /\ pc' = Done
    /\ UNCHANGED <<lock_depth, now, crashed, blocklist, optimistic, optimistic_unchoke_time_scaler,
                   upload_slots, is_endgame, endgame_left, session_peer_limit, swarm, tor,
                   is_running, info, connectable_pool, incoming_pool, graveyard_pool, peer,
                   peers, stats, incoming_handshakes, outgoing_handshakes,
                   outbound_candidates, webseed, webseeds, banned_remotes, port_msgs>>

\* tr_peerMgrGetNextRequests, which takes no lock: updateEndgame reads
\* active_requests
RunGetNextRequests ==
    /\ pc.op = "tr_peerMgrGetNextRequests" /\ pc.at = "body"
    /\ LET t == pc.arg[1]
           v == updateEndgame(Cardinality(active_requests[t]), left_until_done(t))
       IN /\ is_endgame' = [is_endgame EXCEPT ![t] = v]
          /\ endgame_left' = [endgame_left EXCEPT ![t] =
                                 IF v /\ ~is_endgame[t] THEN {left_until_done(t)} ELSE @]
    /\ pc' = Done
    /\ UNCHANGED <<lock_depth, now, crashed, blocklist, optimistic, optimistic_unchoke_time_scaler,
                   upload_slots, session_peer_limit, swarm, tor, is_running, info,
                   connectable_pool, incoming_pool, graveyard_pool, peer, peers, stats,
                   incoming_handshakes, outgoing_handshakes, outbound_candidates, webseed,
                   webseeds, active_requests, banned_remotes, port_msgs>>

\* tr_swarmGetStats, which takes no lock: it walks peers and fills the
\* active counts of stats, which are not kept here
RunGetStats ==
    /\ pc.op = "tr_swarmGetStats" /\ pc.at = "body"
    /\ pc' = Done
    /\ UNCHANGED <<lock_depth, now, crashed, blocklist, optimistic, optimistic_unchoke_time_scaler,
                   upload_slots, is_endgame, endgame_left, session_peer_limit, swarm, tor,
                   is_running, info, connectable_pool, incoming_pool, graveyard_pool, peer,
                   peers, stats, incoming_handshakes, outgoing_handshakes,
                   outbound_candidates, webseed, webseeds, active_requests, banned_remotes,
                   port_msgs>>

\* tr_peerMgr::refillUpkeep below its lock
RunRefillUpkeep ==
    /\ pc.op = "refillUpkeep" /\ pc.at = "body"
    /\ active_requests' = [t \in Torrents |->
                              IF t \in SessionTorrents
                              THEN cancelOldRequests(active_requests[t]).reqs
                              ELSE active_requests[t]]
    /\ pc' = Done
    /\ UNCHANGED <<lock_depth, now, crashed, blocklist, optimistic, optimistic_unchoke_time_scaler,
                   upload_slots, is_endgame, endgame_left, session_peer_limit, swarm, tor,
                   is_running, info, connectable_pool, incoming_pool, graveyard_pool, peer,
                   peers, stats, incoming_handshakes, outgoing_handshakes,
                   outbound_candidates, webseed, webseeds, banned_remotes, port_msgs>>

\* tr_peerMgr::rechokePulse below its lock
RunRechokePulse ==
    /\ pc.op = "rechokePulse" /\ pc.at = "body"
    /\ \E st \in rechoke_each({Cur}, TorrentSeq) : Commit(st)
    /\ pc' = Done
    /\ UNCHANGED <<lock_depth, now, blocklist, upload_slots, is_endgame, endgame_left,
                   session_peer_limit, swarm, tor, incoming_handshakes, webseed, webseeds,
                   banned_remotes, port_msgs>>

\* tr_peerMgr::bandwidthPulse below its lock, down to reconnectPulse
RunBandwidthPulse ==
    /\ pc.op = "bandwidthPulse" /\ pc.at = "body"
    /\ \E st \in reconnectPulse(Cur, {"ok"}) : Commit(st)
    /\ pc' = Done
    /\ UNCHANGED <<lock_depth, now, blocklist, upload_slots, is_endgame, endgame_left,
                   session_peer_limit, swarm, tor, incoming_handshakes, webseed, webseeds,
                   banned_remotes, port_msgs>>


(***************************************************************************)
(* Specifications.  Each one runs the handlers a group of properties is    *)
(* about, on the inputs that exercise them.                                *)
(***************************************************************************)
\* one swarm and the peers that connect to it: they gain and lose interest,
\* complete their download and go away with the torrent's stop, while the
\* upload settings change between rechokes
RechokeNext ==
    \/ AddTorrent(1, TRUE, 0)
    \/ TorrentStarted(1)
    \/ \E sa \in IPs \X (1..2) : AcceptIncoming(sa)
    \/ \E sa \in SockAddrs : IncomingHandshakeDone(sa, 1, TRUE, TRUE, FALSE)
    \/ \E p \in PeerIds, value \in BOOLEAN : PeerSetInterested(1, p, value)
    \/ \E p \in PeerIds : PeerBecameSeed(1, p)
    \/ \E can_upload, up_maxed \in BOOLEAN : SetUploadState(1, can_upload, up_maxed)
    \/ \E n \in 0..MaxUploadSlots : SetUploadSlots(n)
    \/ RechokePulse
    \/ ReconnectPulse({"ok"})
    \/ TorrentStopped(1)

RechokeSpec == Init /\ [][RechokeNext]_vars

\* one swarm: peer sources, handshakes, port learning, the reconnect pulse
PoolsNext ==
    \/ AddTorrent(1, TRUE, 0)
    \/ TorrentStarted(1)
    \/ \E sa \in SockAddrs :
          AddPex(1, TR_PEER_FROM_TRACKER, <<[ip |-> sa[1], port |-> sa[2], flags |-> {}]>>)
    \/ \E sa \in SockAddrs : AcceptIncoming(sa)
    \/ \E sa \in SockAddrs : IncomingHandshakeDone(sa, 1, TRUE, TRUE, FALSE)
    \/ \E sa \in SockAddrs : OutgoingHandshakeDone(sa, 1, TRUE, TRUE, FALSE)
    \/ \E p \in PeerIds, port \in Ports : ClientGotPort(1, p, port)
    \/ ReconnectPulse({"ok"})
    \/ TorrentStopped(1)
    \/ TorrentDoomed(1)

PoolsSpec == Init /\ [][PoolsNext]_vars

\* one swarm and no port messages: peers come and go by handshakes, errors,
\* idle time, the peer limit and the stopping of the torrent; one peer is known
\* from the tracker or from pex, the others connect to us
AdmissionNext ==
    \/ AddTorrent(1, TRUE, 0)
    \/ TorrentStarted(1)
    \/ \E from \in PexSources :
          AddPex(1, from, <<[ip |-> 1, port |-> 1, flags |-> {ADDED_F_CONNECTABLE}]>>)
    \/ \E sa \in IPs \X (1..2) : AcceptIncoming(sa)
    \/ \E sa \in SockAddrs, t \in {0, 1}, ok \in BOOLEAN :
          IncomingHandshakeDone(sa, t, ok, TRUE, FALSE)
    \/ \E sa \in SockAddrs, ok \in BOOLEAN : OutgoingHandshakeDone(sa, 1, ok, ok, FALSE)
    \/ \E p \in PeerIds : PeerError(1, p)
    \/ \E n \in 1..MaxPeerLimit : SetPeerLimit(1, n)
    \/ (now = 0 /\ Tick)
    \/ ReconnectPulse({"ok"})
    \/ TorrentStopped(1)
    \/ TorrentDoomed(1)

AdmissionSpec == Init /\ [][AdmissionNext]_vars

\* every tr_peer a handler can be told about
AnyPeer == {BtPeer(p) : p \in PeerIds} \cup {WsPeer(w) : w \in WebseedIds}

\* one swarm with webseeds, whose peers connect to us: block requests are
\* sent, answered, refused and timed out while peers and webseeds come and go
RequestsNext ==
    \/ \E has_metainfo \in BOOLEAN, n \in 0..NumWebseeds : AddTorrent(1, has_metainfo, n)
    \/ TorrentStarted(1)
    \/ \E sa \in IPs \X (1..2) : AcceptIncoming(sa)
    \/ \E sa \in SockAddrs : IncomingHandshakeDone(sa, 1, TRUE, TRUE, FALSE)
    \/ \E who \in AnyPeer, block \in AskedBlocks : ClientSentRequests(1, who, block)
    \/ \E p \in PeerIds : ClientGotChoke(1, p)
    \/ \E who \in AnyPeer, block \in AskedBlocks : ClientGotRej(1, who, block)
    \/ \E who \in AnyPeer, block \in AskedBlocks : ClientGotBlock(1, who, block)
    \/ \E n \in 0..NumWebseeds : GotMetainfo(1, n)
    \/ \E p \in PeerIds : PeerError(1, p)
    \/ \E n \in 1..MaxPeerLimit : SetPeerLimit(1, n)
    \/ (now = 0 /\ Tick)
    \/ RefillUpkeep
    \/ ReconnectPulse({"ok"})
    \/ TorrentStopped(1)
    \/ TorrentDoomed(1)

RequestsSpec == Init /\ [][RequestsNext]_vars

\* requests to peers and to a webseed grow old while the clock moves in
\* steps of half the time-to-live
TtlNext ==
    \/ AddTorrent(1, TRUE, 1)
    \/ TorrentStarted(1)
    \/ \E sa \in IPs \X (1..2) : AcceptIncoming(sa)
    \/ \E sa \in SockAddrs : IncomingHandshakeDone(sa, 1, TRUE, TRUE, FALSE)
    \/ \E who \in AnyPeer, block \in AskedBlocks : ClientSentRequests(1, who, block)
    \/ TtlTick
    \/ RefillUpkeep

TtlSpec == Init /\ [][TtlNext]_vars

\* a peer dialled, a peer that connects to us, strikes and port messages:
\* handshakes end while the swarm is full, the peer is banned or connected
RefusalNext ==
    \/ AddTorrent(1, TRUE, 0)
    \/ TorrentStarted(1)
    \/ AddPex(1, TR_PEER_FROM_TRACKER, <<[ip |-> 1, port |-> 1, flags |-> {}]>>)
    \/ AcceptIncoming(<<1, 2>>)
    \/ \E sa \in SockAddrs : IncomingHandshakeDone(sa, 1, TRUE, TRUE, FALSE)
    \/ \E sa \in SockAddrs : OutgoingHandshakeDone(sa, 1, TRUE, TRUE, FALSE)
    \/ \E p \in PeerIds : ClientGotBlock(1, BtPeer(p), 1)
    \/ GotBadPiece(1)
    \/ \E p \in PeerIds : ClientGotPort(1, p, 1)
    \/ \E n \in 1..MaxPeerLimit : SetPeerLimit(1, n)
    \/ ReconnectPulse({"ok"})

RefusalSpec == Init /\ [][RefusalNext]_vars

\* the pex lists a tracker answer or a pex message can carry
PexLists ==
    LET entries == {e \in PexEntries : e.port <= 2}
    IN {<<>>} \cup {<<a>> : a \in entries} \cup {<<a, b>> : a, b \in entries}

\* one swarm that learns of peers: pex from the tracker and from peers,
\* sockets that connect to us, dials that fail, and a blocklist that changes
IntakeNext ==
    \/ AddTorrent(1, TRUE, 0)
    \/ TorrentStarted(1)
    \/ \E ips \in SUBSET IPs : BlocklistChanged(ips)
    \/ \E from \in Sources, pexs \in PexLists : AddPex(1, from, pexs)
    \/ \E sa \in IPs \X (1..2) : AddIncoming(sa)
    \/ \E sa \in SockAddrs : IncomingHandshakeDone(sa, 1, TRUE, TRUE, FALSE)
    \/ ReconnectPulse({"io_failed"})

IntakeSpec == Init /\ [][IntakeNext]_vars

\* one swarm whose known peers are dialled, connect, turn out to be seeds,
\* get banned or blocked, while the torrent completes
GetPeersNext ==
    \/ AddTorrent(1, TRUE, 0)
    \/ TorrentStarted(1)
    \/ \E port \in 1..2 :
          AddPex(1, TR_PEER_FROM_TRACKER, <<[ip |-> 1, port |-> port, flags |-> {}]>>)
    \/ \E ips \in SUBSET IPs : BlocklistChanged(ips)
    \/ \E sa \in SockAddrs, ok \in BOOLEAN : OutgoingHandshakeDone(sa, 1, ok, ok, FALSE)
    \/ \E p \in PeerIds, block \in AskedBlocks : ClientGotBlock(1, BtPeer(p), block)
    \/ GotBadPiece(1)
    \/ SwarmIsAllSeeds(1)
    \/ TorrentDone(1)
    \/ ReconnectPulse({"ok"})

GetPeersSpec == Init /\ [][GetPeersNext]_vars

\* one swarm whose entry points are entered one after the other, each going
\* through its steps around the lock
LockNext ==
    \/ (pc = Idle /\ AddTorrent(1, TRUE, 0))
    \/ (pc = Idle /\ TorrentStarted(1))
    \/ (pc = Idle /\ now = 0 /\ Tick)
    \/ \E sa \in IPs \X (1..2) : Call("tr_peerMgrAddIncoming", <<sa>>, "lock")
    \/ \E sa \in incoming_handshakes, ok \in BOOLEAN :
          FreePeerIds(Cur) # {} /\ Call("on_handshake_done", <<sa, 1, ok>>, "erase")
    \/ \E p \in Range(peers[1]), block \in AskedBlocks :
          swarm[1] = "live" /\ Call("tr_peerMgrClientSentRequests", <<1, BtPeer(p), block>>, "body")
    \/ \E p \in Range(peers[1]) :
          swarm[1] = "live" /\ Call("tr_peerMgrGetNextRequests", <<1, BtPeer(p)>>, "body")
    \/ (swarm[1] = "live" /\ Call("tr_swarmGetStats", <<1>>, "body"))
    \/ Call("refillUpkeep", <<>>, "lock")
    \/ Call("rechokePulse", <<>>, "lock")
    \/ Call("bandwidthPulse", <<>>, "lock")
    \/ AcquireLock
    \/ EraseHandshake
    \/ RunAddIncoming
    \/ RunHandshakeDone
    \/ RunClientSentRequests
    \/ RunGetNextRequests
    \/ RunGetStats
    \/ RunRefillUpkeep
    \/ RunRechokePulse
    \/ RunBandwidthPulse
    \/ ReleaseLock

LockSpec == Init /\ [][LockNext]_vars

\* one swarm that downloads: requests are sent, refused, choked away, timed
\* out and answered while the peers ask for more work
EndgameNext ==
    \/ AddTorrent(1, TRUE, 0)
    \/ TorrentStarted(1)
    \/ \E sa \in IPs \X (1..2) : AcceptIncoming(sa)
    \/ \E sa \in SockAddrs : IncomingHandshakeDone(sa, 1, TRUE, TRUE, FALSE)
    \/ \E p \in PeerIds, block \in Blocks : ClientSentRequests(1, BtPeer(p), block)
    \/ \E p \in PeerIds : GetNextRequests(1, BtPeer(p))
    \/ \E p \in PeerIds : ClientGotChoke(1, p)
    \/ \E p \in PeerIds, block \in Blocks : ClientGotRej(1, BtPeer(p), block)
    \/ \E p \in PeerIds, block \in Blocks : ClientGotBlock(1, BtPeer(p), block)
    \/ \E p \in PeerIds : PeerError(1, p)
    \/ ReconnectPulse({"ok"})
    \/ TorrentStopped(1)
    \/ TorrentDoomed(1)

EndgameSpec == Init /\ [][EndgameNext]_vars

\* one swarm whose peers deliver blocks of pieces that fail their checksum:
\* strikes, bans, the reaping of the banned and their coming back
BanNext ==
    \/ AddTorrent(1, TRUE, 0)
    \/ TorrentStarted(1)
    \/ AddPex(1, TR_PEER_FROM_TRACKER, <<[ip |-> 1, port |-> 1, flags |-> {}]>>)
    \/ AcceptIncoming(<<1, 2>>)
    \/ \E sa \in SockAddrs : IncomingHandshakeDone(sa, 1, TRUE, TRUE, FALSE)
    \/ \E sa \in SockAddrs : OutgoingHandshakeDone(sa, 1, TRUE, TRUE, FALSE)
    \/ \E p \in PeerIds, block \in AskedBlocks : ClientGotBlock(1, BtPeer(p), block)
    \/ GotBadPiece(1)
    \/ ReconnectPulse({"ok"})
    \/ TorrentStopped(1)

BanSpec == Init /\ [][BanNext]_vars

\* the swarms of the session, their peers connecting to us: pieces move, peers
\* fail, the user lowers and raises the limits, the pulse reaps
LimitsNext ==
    \/ \E t \in Torrents : AddTorrent(t, TRUE, 0)
    \/ \E t \in Torrents : TorrentStarted(t)
    \/ \E sa \in IPs \X (1..2) : AcceptIncoming(sa)
    \/ \E sa \in SockAddrs, t \in Torrents : IncomingHandshakeDone(sa, t, TRUE, TRUE, FALSE)
    \/ \E t \in Torrents, p \in PeerIds : ClientPieceData(t, p)
    \/ \E t \in Torrents, p \in PeerIds : PeerError(t, p)
    \/ \E t \in Torrents, n \in 1..MaxPeerLimit : SetPeerLimit(t, n)
    \/ \E n \in 1..MaxPeerObjs : SetSessionPeerLimit(n)
    \/ (now = 0 /\ Tick)
    \/ ReconnectPulse({"ok"})
    \/ \E t \in Torrents : TorrentStopped(t)

LimitsSpec == Init /\ [][LimitsNext]_vars

\* The i-th entry of a candidate list: <<torrent id, socket address>>.  The
\* addresses go beyond those the swarms of the model hold a tr_peer_info for.
StaleCandidate(i) ==
    <<1 + (i % NumTorrents),
      <<1 + (i \div (NumTorrents * MaxPort)), 1 + ((i \div NumTorrents) % MaxPort)>>>>

StaleCandidates(n) == [i \in 1..n |-> StaleCandidate(i - 1)]

\* The session some time into its life: outbound_candidates_ still holds what
\* an earlier pulse left of its list, and the torrents the entries name have
\* been removed since.  Torrents are added again, fed addresses the list names,
\* dialled, and removed.
DialInit == InitTables /\ \E n \in {0, MaxStale - 1, MaxStale} : outbound_candidates = StaleCandidates(n)

DialNext ==
    \/ \E t \in Torrents : AddTorrent(t, TRUE, 0)
    \/ \E t \in Torrents : TorrentStarted(t)
    \/ \E t \in Torrents, port \in Ports :
          AddPex(t, TR_PEER_FROM_TRACKER, <<[ip |-> 1, port |-> port, flags |-> {}]>>)
    \/ \E sa \in SockAddrs, t \in Torrents, ok \in BOOLEAN :
          OutgoingHandshakeDone(sa, t, ok, ok, FALSE)
    \/ ReconnectPulse(DialOutcomes)
    \/ \E t \in Torrents : TorrentStopped(t)
    \/ \E t \in Torrents : TorrentDoomed(t)

DialSpec == DialInit /\ [][DialNext]_vars


(***************************************************************************)
(* Properties of the pools.                                                *)
(***************************************************************************)
PoolsOf(t) == <<connectable_pool[t], incoming_pool[t], graveyard_pool[t]>>

\* C1: every connected peer refers to a tr_peer_info that one of the three
\* pools of its swarm holds; no pool operation frees a tr_peer_info that a
\* connected peer still points at.
C1_PeersReferToPooledInfo ==
    \A t \in Torrents : \A i \in 1..Len(peers[t]) :
        peer[peers[t][i]].info \in
            PoolIds(connectable_pool[t]) \cup PoolIds(incoming_pool[t])
                \cup PoolIds(graveyard_pool[t])

\* C4: every entry of connectable_pool is keyed by the listen_socket_address
\* of the tr_peer_info it holds.
C4_ConnectableKeyedByListenAddress ==
    \A t \in Torrents : \A k \in DOMAIN connectable_pool[t] :
        listen_socket_address(info[connectable_pool[t][k]]) = k

\* C5 as stated: no socket address is a key of more than one pool of a swarm.
C5_PoolsDisjointOnKeys ==
    \A t \in Torrents : \A a, b \in 1..3 :
        a # b => DOMAIN PoolsOf(t)[a] \cap DOMAIN PoolsOf(t)[b] = {}

\* C5, amended: the pools are disjoint as sets of tr_peer_info objects -- no
\* tr_peer_info is held by two pools, or twice by one pool, of any swarm.
C5_PoolsDisjointOnInfos ==
    \A t, u \in Torrents : \A a, b \in 1..3 :
        \A k \in DOMAIN PoolsOf(t)[a] : \A l \in DOMAIN PoolsOf(u)[b] :
            PoolsOf(t)[a][k] = PoolsOf(u)[b][l] => (t = u /\ a = b /\ k = l)

\* a displaced entry rests in the graveyard under the key its winner has taken
C5_Witness ==
    \E t \in Torrents : \E k \in DOMAIN graveyard_pool[t] :
        /\ k \in DOMAIN connectable_pool[t]
        /\ info[connectable_pool[t][k]].connected

\* C6 as stated: incoming_pool holds at most one tr_peer_info per IP address.
C6_IncomingOnePerIP ==
    \A t \in Torrents : \A k, l \in DOMAIN incoming_pool[t] : k[1] = l[1] => k = l

\* C6, amended: incoming_pool is keyed by the remote socket address of the
\* connection, so it holds one port-less tr_peer_info per remote socket
\* address: the entry's listen address is the key's IP, its listen port empty.
C6_IncomingKeyedByRemoteAddress ==
    \A t \in Torrents : \A k \in DOMAIN incoming_pool[t] :
        /\ info[incoming_pool[t][k]].addr = k[1]
        /\ info[incoming_pool[t][k]].port = EmptyPort

\* two incoming connections from one IP, each with its own entry
C6_Witness ==
    \E t \in Torrents : \E k, l \in DOMAIN incoming_pool[t] : k # l /\ k[1] = l[1]

\* C2: stats.peer_count is the length of peers, and the per-source counters
\* add up to it, in every state that handshakes, removals, reap pulses and
\* limit enforcement reach.
C2_StatsMatchPeers ==
    \A t \in Torrents :
        /\ stats[t].peer_count = Len(peers[t])
        /\ stats[t].peer_from_count[TR_PEER_FROM_INCOMING]
             + stats[t].peer_from_count[TR_PEER_FROM_TRACKER]
             + stats[t].peer_from_count[TR_PEER_FROM_PEX] = stats[t].peer_count


(***************************************************************************)
(* Properties of handshake completion and of stopping a swarm.             *)
(***************************************************************************)
\* the handshakes that can complete in the current state: <<torrent, incoming, address>>
PendingHandshakes ==
    {<<t, TRUE, sa>> : t \in Torrents \cup {0}, sa \in incoming_handshakes}
        \cup UNION {{<<t, FALSE, sa>> : sa \in outgoing_handshakes[t]} : t \in SessionTorrents}

\* the tables on_handshake_done works on once the handshake has left its table
AfterErase(h) == IF h[2] THEN Cur ELSE [Cur EXCEPT !.out[h[1]] = @ \ {h[3]}]

\* the tr_peer_info the completed handshake is about, NoInfo when there is none yet
InfoOfHandshake(h) ==
    LET s == SwarmOf(h[1])
    IN IF s = 0 THEN NoInfo
       ELSE IF h[2] THEN (IF PoolHas(incoming_pool[s], h[3]) THEN incoming_pool[s][h[3]]
                          ELSE NoInfo)
       ELSE get_existing_peer_info(Cur, s, h[3])

\* the condition under which C7 says the peer is installed
ShouldAdmit(h, ok) ==
    LET s == SwarmOf(h[1])
        id == InfoOfHandshake(h)
    IN /\ ok
       /\ s # 0
       /\ is_running[s]
       /\ id # NoInfo => (~info[id].banned /\ ~info[id].connected)
       /\ Len(peers[s]) < tor[s].peer_limit

\* C7: a completed handshake appends one peer and returns true exactly when
\* it succeeded, the swarm exists and runs, the peer info is neither banned
\* nor connected and the swarm is below its peer limit; otherwise it returns
\* false and leaves peers alone; a swarm never exceeds its limit by admission.
C7_HandshakeAdmission ==
    ~crashed /\ FreePeerIds(Cur) # {} =>
        \A h \in PendingHandshakes : \A ok \in BOOLEAN :
            \A e \in on_handshake_done(AfterErase(h), h[1], h[2], h[3], ok, TRUE, FALSE) :
                /\ ~e.st.crashed
                /\ e.ret <=> ShouldAdmit(h, ok)
                /\ ~e.ret => e.st.peers = peers
                /\ e.ret =>
                      /\ Len(e.st.peers[h[1]]) = Len(peers[h[1]]) + 1
                      /\ SubSeq(e.st.peers[h[1]], 1, Len(peers[h[1]])) = peers[h[1]]
                      /\ \A u \in Torrents \ {h[1]} : e.st.peers[u] = peers[u]
                      /\ Len(e.st.peers[h[1]]) <= tor[h[1]].peer_limit

\* C8: stop() leaves the swarm with no peers, no outgoing handshakes, a peer
\* count of zero and is_running false, and that is what ~tr_swarm finds.
C8_StopLeavesSwarmEmpty ==
    /\ \A t \in SessionTorrents :
          ~crashed =>
             LET st == stop(Cur, t)
             IN /\ st.peers[t] = <<>>
                /\ st.out[t] = {}
                /\ st.stats[t].peer_count = 0
                /\ ~st.run[t]
    /\ \A t \in Torrents :
          swarm[t] = "destroyed" =>
             /\ ~is_running[t]
             /\ outgoing_handshakes[t] = {}
             /\ peers[t] = <<>>
             /\ stats[t].peer_count = 0

\* stop() has something of each kind to clear, and clears it
C8_Witness ==
    \E t \in SessionTorrents :
        /\ ~crashed
        /\ is_running[t]
        /\ peers[t] # <<>>
        /\ outgoing_handshakes[t] # {}
        /\ stop(Cur, t).peers[t] = <<>>
        /\ stop(Cur, t).out[t] = {}

\* an incoming peer is connected, and a peer first heard of through pex has
\* been connected and removed since the clock moved
C2_Witness ==
    \E t \in Torrents :
        /\ stats[t].peer_count = 1
        /\ stats[t].peer_from_count[TR_PEER_FROM_INCOMING] = 1
        /\ \E k \in DOMAIN connectable_pool[t] :
              /\ ~info[connectable_pool[t][k]].connected
              /\ info[connectable_pool[t][k]].conn_at > 0
              /\ info[connectable_pool[t][k]].from_first = TR_PEER_FROM_PEX


(***************************************************************************)
(* Properties of the request bookkeeping.                                  *)
(***************************************************************************)
\* C3: every request in active_requests names a connected peer or a webseed
\* of its swarm; removing a peer or rebuilding the webseeds leaves no request
\* that names a destroyed tr_peer.
C3_RequestsNameLivePeers ==
    \A t \in Torrents : \A r \in active_requests[t] : r.peer \in PeersOf(t)

\* a peer with a request outstanding is marked for removal next to one that
\* is not, and removing it takes its requests along and leaves the others
C3_Witness ==
    \E t \in SessionTorrents : \E p \in Range(peers[t]) :
        /\ ~crashed
        /\ peer[p].do_purge
        /\ \E r \in active_requests[t] : r.peer = BtPeer(p)
        /\ \E r \in active_requests[t] : r.peer # BtPeer(p)
        /\ \A r \in remove_peer(Cur, t, p).reqs[t] : r.peer # BtPeer(p)
        /\ remove_peer(Cur, t, p).reqs[t] # {}


(***************************************************************************)
(* Properties of bans.                                                     *)
(***************************************************************************)
\* C9: a ban is permanent.  A connected peer whose remote address has been
\* banned in its swarm is the very connection that earned the ban (it has
\* its five strikes and waits to be reaped), never a later one; and no
\* outgoing handshake is under way to a banned address.
C9_BanIsPermanent ==
    \A t \in Torrents :
        /\ \A p \in Range(peers[t]) :
              <<t, peer[p].sa>> \in banned_remotes => peer[p].strikes >= MaxBadPiecesPerPeer
        /\ \A sa \in outgoing_handshakes[t] : <<t, sa>> \notin banned_remotes


(***************************************************************************)
(* Properties of limit enforcement in the reconnect pulse.                 *)
(***************************************************************************)
\* c is no more active than k: marked do_purge when k is not, or marked
\* alike and with piece data no newer than k's
NoMoreActive(st, c, k) ==
    IF st.peer[c].do_purge # st.peer[k].do_purge THEN st.peer[c].do_purge
    ELSE st.info[st.peer[c].info].piece <= st.info[st.peer[k].info].piece

\* of the peers in scope, after has lost exactly those over the limit, and
\* none of them was more active than one that stayed
ClosedLeastActive(before, after, scope, limit) ==
    LET kept == {p \in scope : after.peer[p].tor # 0}
        closed == scope \ kept
    IN /\ Cardinality(closed) = Max2(0, Cardinality(scope) - limit)
       /\ \A c \in closed : \A k \in kept : NoMoreActive(before, c, k)

\* every per-swarm enforcement of the pulse, in the order the pulse runs them
RECURSIVE SwarmLimitsEnforced(_, _)
SwarmLimitsEnforced(sts, ts) ==
    IF ts = <<>> THEN TRUE
    ELSE /\ \A st \in sts :
              st.run[Head(ts)] =>
                 \A st2 \in enforceSwarmPeerLimit(st, Head(ts), tor[Head(ts)].peer_limit) :
                    ClosedLeastActive(st, st2, Range(st.peers[Head(ts)]),
                                      tor[Head(ts)].peer_limit)
         /\ SwarmLimitsEnforced(enforce_each(sts, <<Head(ts)>>), Tail(ts))

\* C10: when reconnectPulse ends, every running swarm is within its
\* torrent's peer limit and the session within the session limit; each
\* enforcement closes exactly the peers over the limit, and those are the
\* least active: do_purge first, then the oldest piece data.
C10_PulseEnforcesLimits ==
    ~crashed =>
       LET reaped == reap_each(Cur, TorrentSeq)
       IN /\ SwarmLimitsEnforced({reaped}, TorrentSeq)
          /\ \A st2 \in enforce_each({reaped}, TorrentSeq) :
                \A st3 \in enforceSessionPeerLimit(st2, session_peer_limit) :
                   ClosedLeastActive(st2, st3, AllPeersOf(st2), session_peer_limit)
          /\ \A st4 \in reconnectPulse(Cur, {"ok"}) :
                /\ \A t \in SessionTorrents :
                      st4.run[t] => peerCount(st4, t) <= tor[t].peer_limit
                /\ Cardinality(AllPeersOf(st4)) <= session_peer_limit

\* a running swarm is over its limit with peers the reaping leaves alone, one
\* with newer piece data than the other, and the pulse keeps the newer one
C10_Witness ==
    \E t \in SessionTorrents :
        /\ ~crashed
        /\ is_running[t]
        /\ tor[t].peer_limit = 1
        /\ Len(peers[t]) = 2
        /\ reap_each(Cur, TorrentSeq).peers[t] = peers[t]
        /\ info[peer[peers[t][1]].info].piece > info[peer[peers[t][2]].info].piece
        /\ \A st \in reconnectPulse(Cur, {"ok"}) : st.peers[t] = <<peers[t][1]>>


(***************************************************************************)
(* Properties of the outbound dialling.                                    *)
(***************************************************************************)
\* the outgoing handshakes b has and a has not, as <<torrent, address>>
NewHandshakes(a, b) ==
    {x \in Torrents \X SockAddrs : x[2] \in b.out[x[1]] \ a.out[x[1]]}

AfterRechoke(t) ==
    IF ~crashed /\ t \in SessionTorrents /\ is_running[t] /\ stats[t].peer_count > 0
    THEN UNION {rechokeUploads(Cur, t, rate, salt) :
                   rate \in [PeerIds -> 0..MaxRate], salt \in [PeerIds -> 0..MaxSalt]}
    ELSE {}

UnchokedInterested(st, t) ==
    {p \in Range(st.peers[t]) : ~st.peer[p].choked /\ st.peer[p].interested}

\* C12 as stated: after every rechoke of a swarm at most uploadSlotsPerTorrent
\* peers are unchoked and interested, the optimistic peer counted in.
C12_UnchokedInterestedWithinSlots ==
    \A t \in Torrents : \A st \in AfterRechoke(t) :
        Cardinality(UnchokedInterested(st, t)) <= upload_slots

\* C12, amended: after every rechoke of a swarm at most uploadSlotsPerTorrent
\* + 1 peers are unchoked and interested: the reciprocated ones, up to the
\* upload slots, and one optimistic peer, newly chosen or still current.
C12_UnchokedInterestedWithinSlotsPlusOne ==
    \A t \in Torrents : \A st \in AfterRechoke(t) :
        /\ Cardinality(UnchokedInterested(st, t)) <= upload_slots + 1
        /\ Cardinality(UnchokedInterested(st, t) \ {st.opt[t]}) <= upload_slots

\* a rechoke fills the upload slot and picks an optimistic peer on top of it
C12_Witness ==
    \E t \in Torrents : \E st \in AfterRechoke(t) :
        /\ upload_slots = 1
        /\ optimistic[t] = NoPeer
        /\ st.opt[t] \in UnchokedInterested(st, t)
        /\ Cardinality(UnchokedInterested(st, t)) = 2

\* C13 as stated: in every reachable state a connected peer that is a seed is
\* choked by us.
C13_SeedsAlwaysChoked ==
    \A t \in Torrents : \A p \in Range(peers[t]) : peer[p].is_seed => peer[p].choked

\* C13, amended: after every rechoke of a swarm every connected peer that is a
\* seed is choked; a peer that becomes a seed between two rechokes keeps its
\* choke state until the next one.
C13_SeedsChokedAfterRechoke ==
    \A t \in Torrents : \A st \in AfterRechoke(t) :
        \A p \in Range(st.peers[t]) : st.peer[p].is_seed => st.peer[p].choked

\* an unchoked peer has become a seed, and the rechoke chokes it
C13_Witness ==
    \E t \in Torrents : \E p \in Range(peers[t]) :
        /\ peer[p].is_seed
        /\ ~peer[p].choked
        /\ tor[t].can_upload
        /\ AfterRechoke(t) # {}
        /\ \A st \in AfterRechoke(t) : st.peer[p].choked

\* C14 as stated: while the optimistic scaler is > 0 the optimistic peer is
\* unchoked after every rechoke unless it is a seed, whether or not the
\* torrent can upload and whether or not upstream bandwidth is maxed out.
C14_OptimisticUnchoked ==
    \A t \in Torrents : \A st \in AfterRechoke(t) :
        (st.scaler[t] > 0 /\ st.opt[t] \in Range(st.peers[t]) /\ ~st.peer[st.opt[t]].is_seed)
            => ~st.peer[st.opt[t]].choked

\* C14, amended: while the optimistic scaler is > 0 a rechoke chokes the
\* optimistic peer if it is a seed or the torrent cannot upload at all;
\* otherwise a newly chosen optimistic peer is unchoked and a current one is
\* left out of the reshuffle with the choke state it had before the rechoke,
\* also when upstream bandwidth is maxed out.
C14_OptimisticKeepsChokeState ==
    \A t \in Torrents : \A st \in AfterRechoke(t) :
        (st.scaler[t] > 0 /\ st.opt[t] \in Range(st.peers[t])) =>
            LET p == st.opt[t]
            IN IF st.peer[p].is_seed \/ ~tor[t].can_upload THEN st.peer[p].choked
               ELSE IF optimistic[t] = p /\ optimistic_unchoke_time_scaler[t] > 0
               THEN st.peer[p].choked = peer[p].choked
               ELSE ~st.peer[p].choked

\* the optimistic peer is unchoked, upstream is maxed out, no slot is free, and
\* the rechoke leaves it unchoked
C14_Witness ==
    \E t \in Torrents : \E st \in AfterRechoke(t) :
        /\ tor[t].up_maxed
        /\ upload_slots = 0
        /\ optimistic[t] \in Range(peers[t])
        /\ ~peer[optimistic[t]].choked
        /\ ~peer[optimistic[t]].is_seed
        /\ st.scaler[t] > 0
        /\ st.opt[t] = optimistic[t]
        /\ ~st.peer[st.opt[t]].choked

PoolContents(st, t) ==
    [cp |-> [sa \in DOMAIN st.cp[t] |-> st.info[st.cp[t][sa]]],
     ip |-> [sa \in DOMAIN st.ip[t] |-> st.info[st.ip[t][sa]]],
     gp |-> [sa \in DOMAIN st.gp[t] |-> st.info[st.gp[t][sa]]]]

\* C16: addPex is idempotent on pool state.  Whatever the pex list and the
\* source, a second addPex with the same arguments leaves the three pools
\* of the swarm, with every field of every tr_peer_info, as the first call
\* left them, and creates no tr_peer_info.
C16_AddPexIdempotent ==
    \A t \in SessionTorrents, from \in Sources, pexs \in PexLists :
        \A once \in add_pex(Cur, t, from, pexs, 0) :
            \A twice \in add_pex(once.st, t, from, pexs, 0) :
                /\ PoolContents(twice.st, t) = PoolContents(once.st, t)
                /\ OwnedIn(twice.st.cp, twice.st.ip, twice.st.gp)
                      = OwnedIn(once.st.cp, once.st.ip, once.st.gp)
                /\ twice.n_used = once.n_used

\* a pex list that names a new address and a known one, whose record the
\* first call changes: a better source
C16_Witness ==
    \E t \in SessionTorrents, from \in Sources, pexs \in PexLists :
        \E once \in add_pex(Cur, t, from, pexs, 0) :
            /\ once.n_used = 2
            /\ DOMAIN once.st.cp[t] # DOMAIN connectable_pool[t]
            /\ \E sa \in DOMAIN connectable_pool[t] :
                  LET before == info[connectable_pool[t][sa]]
                      after == once.st.info[once.st.cp[t][sa]]
                  IN /\ after.from_best < before.from_best
                     /\ before.fails > 0

\* what a call of addIncoming for sa does to the table in the current state
AddIncomingFilters(sa) ==
    LET after == add_incoming(incoming_handshakes, sa)
    IN IF sa[1] \in blocklist \/ sa \in incoming_handshakes
       THEN after = incoming_handshakes
       ELSE /\ after = incoming_handshakes \cup {sa}
            /\ Cardinality(after) = Cardinality(incoming_handshakes) + 1

\* a step that enters a handshake enters one, for an address that is not
\* blocked, and touches neither a pool nor a peer nor a counter
AddIncomingFrame ==
    (incoming_handshakes' \ incoming_handshakes # {})
        => /\ \E sa \in SockAddrs :
                 /\ sa[1] \notin blocklist
                 /\ sa \notin incoming_handshakes
                 /\ incoming_handshakes' = incoming_handshakes \cup {sa}
           /\ UNCHANGED <<info, connectable_pool, incoming_pool, graveyard_pool, peer,
                          peers, stats, outgoing_handshakes, outbound_candidates>>

\* C17: addIncoming deduplicates and filters.  For a blocked address and for
\* an address that has a handshake in the table the call changes nothing;
\* otherwise it adds exactly one entry, keyed by the socket address, and
\* leaves the pools and the counters alone.
C17_AddIncomingDeduplicates ==
    /\ [](\A sa \in SockAddrs : AddIncomingFilters(sa))
    /\ [][AddIncomingFrame]_vars

\* two handshakes are in the table, so a third socket from either address is
\* a duplicate, and the address has since been blocked
C17_Witness ==
    /\ Cardinality(incoming_handshakes) >= 2
    /\ \E sa \in incoming_handshakes : sa[1] \in blocklist

\* C18 as stated: with mode INTERESTING an entry in use always passes the
\* filter, a connected seed of a done torrent included; an entry not in use
\* is dropped iff it is a seed while we are done, blocklisted or banned.
C18_InUseAlwaysPasses ==
    \A t \in SessionTorrents : \A sa \in DOMAIN connectable_pool[t] :
        LET pi == info[connectable_pool[t][sa]]
        IN IF peer_is_in_use(Cur, t, pi)
           THEN sa \in InterestingPeers(Cur, t)
           ELSE sa \notin InterestingPeers(Cur, t)
                    <=> ((tor[t].is_done /\ pi.seed) \/ is_blocklisted(pi) \/ pi.banned)

\* C18, amended: a seed is dropped while our torrent is done, in use or
\* not; any other entry in use passes whatever its blocklist and ban
\* status; any other entry not in use is dropped iff it is blocklisted or
\* banned.
C18_SeedsDroppedWhenDone ==
    \A t \in SessionTorrents : \A sa \in DOMAIN connectable_pool[t] :
        LET pi == info[connectable_pool[t][sa]]
        IN sa \in InterestingPeers(Cur, t)
              <=> /\ ~(tor[t].is_done /\ pi.seed)
                  /\ peer_is_in_use(Cur, t, pi) \/ ~(is_blocklisted(pi) \/ pi.banned)

\* a connected seed of a done torrent is dropped
C18_Witness ==
    \E t \in SessionTorrents : \E sa \in DOMAIN connectable_pool[t] :
        LET pi == info[connectable_pool[t][sa]]
        IN /\ pi.connected
           /\ pi.seed
           /\ tor[t].is_done
           /\ sa \notin InterestingPeers(Cur, t)

\* the next step of the executing thread works on the handshake tables, the
\* pools, the peers or the requests
AtStateAccess == pc.at \in {"erase", "body"}

\* a step changes a handshake table, a pool, a peer, a counter or a request
StateMutated ==
    <<incoming_handshakes, outgoing_handshakes, info, connectable_pool, incoming_pool,
      graveyard_pool, peer, peers, stats, active_requests, is_endgame>>'
        # <<incoming_handshakes, outgoing_handshakes, info, connectable_pool, incoming_pool,
            graveyard_pool, peer, peers, stats, active_requests, is_endgame>>

\* C19: every entry point and every timer or handshake callback takes the
\* session lock before it reads or changes peer-manager state: no step of
\* on_handshake_done, clientSentRequests, getNextRequests, tr_swarmGetStats,
\* rechokePulse, refillUpkeep or bandwidthPulse reaches the handshake
\* tables, the pools, the peers or active_requests without the lock.
C19_LockHeldOnAccess ==
    /\ [](AtStateAccess => lock_depth > 0)
    /\ [][StateMutated => lock_depth > 0]_vars

\* C20: whenever an outgoing handshake of a running swarm completes with
\* success, connectable_pool has a tr_peer_info under the socket address of
\* the handshake, so the lookup of on_handshake_done does not yield null,
\* whatever ClientGotPort merged, erased or re-keyed while it was pending.
C20_OutgoingLookupNeverNull ==
    \A t \in SessionTorrents : \A sa \in outgoing_handshakes[t] :
        is_running[t] =>
            /\ get_existing_peer_info(Cur, t, sa) # NoInfo
            /\ \A e \in on_handshake_done(Cur, t, FALSE, sa, TRUE, TRUE, FALSE) :
                  ~e.st.crashed

\* the peers of swarm t whose tr_peer_info has no listen port and sits in
\* incoming_pool under the remote socket address of the connection
InIncomingPool(t, p) ==
    /\ p \in Range(peers[t])
    /\ peer[p].info \in InfoIds
    /\ info[peer[p].info].port = EmptyPort
    /\ PoolHas(incoming_pool[t], peer[p].sa)
    /\ incoming_pool[t][peer[p].sa] = peer[p].info

\* C21: port learning, case A without collision.  A connected peer whose
\* tr_peer_info has an empty listen port and lives in incoming_pool under
\* (A, e) announces port P, and connectable_pool has nothing at (A, P):
\* afterwards the same tr_peer_info is in connectable_pool under (A, P) with
\* listen port P and connectable, incoming_pool has lost (A, e), and the
\* peer still refers to the same tr_peer_info.
C21_PortPromotesIncomingInfo ==
    \A t \in SessionTorrents, p \in PeerIds, port \in Ports :
        (~crashed /\ InIncomingPool(t, p)
           /\ ~PoolHas(connectable_pool[t], <<info[peer[p].info].addr, port>>))
        => LET id == peer[p].info
               key == <<info[id].addr, port>>
               after == client_got_port(Cur, t, p, port)
           IN /\ ~after.crashed
              /\ PoolHas(after.cp[t], key)
              /\ after.cp[t][key] = id
              /\ after.info[id].port = port
              /\ after.info[id].connectable = "yes"
              /\ ~PoolHas(after.ip[t], peer[p].sa)
              /\ after.peer[p].info = id
              /\ after.info[id] = [info[id] EXCEPT !.port = port, !.connectable = "yes"]

\* an incoming peer with an unknown listen port, a port it can announce, and
\* another entry in connectable_pool that the promotion must not disturb
C21_Witness ==
    \E t \in SessionTorrents, p \in PeerIds, port \in Ports :
        /\ ~crashed
        /\ InIncomingPool(t, p)
        /\ ~PoolHas(connectable_pool[t], <<info[peer[p].info].addr, port>>)
        /\ DOMAIN connectable_pool[t] # {}
        /\ client_got_port(Cur, t, p, port).cp[t] # connectable_pool[t]

\* peer p of swarm t announces a port under which connectable_pool holds
\* the tr_peer_info of another live connection
PortCollision(t, p, port) ==
    /\ ~crashed
    /\ p \in Range(peers[t])
    /\ port # EmptyPort
    /\ peer[p].info \in InfoIds
    /\ info[peer[p].info].port # port
    /\ IF info[peer[p].info].port = EmptyPort
       THEN /\ PoolHas(incoming_pool[t], peer[p].sa)
            /\ incoming_pool[t][peer[p].sa] = peer[p].info
       ELSE /\ PoolHas(connectable_pool[t], listen_socket_address(info[peer[p].info]))
            /\ connectable_pool[t][listen_socket_address(info[peer[p].info])] = peer[p].info
    /\ PoolHas(connectable_pool[t], <<info[peer[p].info].addr, port>>)
    /\ LET that == connectable_pool[t][<<info[peer[p].info].addr, port>>]
       IN /\ that # peer[p].info
          /\ info[that].port = port
          /\ info[that].connected
          /\ \E q \in Range(peers[t]) : peer[q].info = that

\* the outcome the collision is meant to have: the loser's peer is purged,
\* the loser's tr_peer_info is in graveyard_pool only, the winner is merged
CollisionSettled(t, p, port) ==
    LET this == peer[p].info
        that == connectable_pool[t][<<info[this].addr, port>>]
        this_wins == CompareAtomsByUsefulness(info[this], info[that])
        loser == IF this_wins THEN that ELSE this
        winner == IF this_wins THEN this ELSE that
        after == client_got_port(Cur, t, p, port)
    IN /\ ~after.crashed
       /\ \A q \in Range(peers[t]) :
             peer[q].info = loser => after.peer[q].do_purge
       /\ \A q \in Range(peers[t]) :
             (peer[q].info = winner /\ ~peer[q].do_purge) => ~after.peer[q].do_purge
       /\ loser \in PoolIds(after.gp[t])
       /\ loser \notin PoolIds(after.cp[t]) \cup PoolIds(after.ip[t])
       /\ after.info[winner].fails = Max2(info[winner].fails, info[loser].fails)
       /\ after.info[winner].from_best
             = Min2(info[winner].from_best, info[loser].from_best)
       /\ after.info[winner].piece = Max2(info[winner].piece, info[loser].piece)

\* C22: port collision with two live connections.  The two tr_peer_info are
\* compared with CompareAtomsByUsefulness; the peer of the losing one is
\* marked do_purge, the losing tr_peer_info is moved to graveyard_pool, and
\* the winning one absorbs the history of the loser: for either outcome of
\* the comparison, and whether the announcing peer's port was unknown
\* (entry in incoming_pool) or known (entry in connectable_pool).
C22_CollisionLoserToGraveyard ==
    \A t \in SessionTorrents, p \in PeerIds, port \in Ports :
        PortCollision(t, p, port) => CollisionSettled(t, p, port)

\* the tr_peer pointers with an active request for the block
Requesters(t, block) == {r.peer : r \in {x \in active_requests[t] : x.block = block}}

\* C23: on ClientGotBlock for block b delivered by peer p, every outstanding
\* request for b, p's own included, leaves active_requests; a CANCEL goes to
\* each BitTorrent peer other than p that had requested b and to nobody else
\* (never to p, never to a webseed); and both are done when the block is
\* handed to the torrent by tr_torrentGotBlock.
C23_GotBlockCancelsOthers ==
    \A t \in SessionTorrents, who \in AnyPeer, b \in Blocks :
        (~crashed /\ swarm[t] = "live" /\ tor[t].has_metainfo /\ who \in PeersOf(t))
        => LET out == client_got_block(active_requests[t], tor[t].have, who, b)
               others == {q \in Requesters(t, b) : q[1] = "bt" /\ q # who}
           IN /\ \A r \in out.reqs : r.block # b
              /\ out.reqs = {r \in active_requests[t] : r.block # b}
              /\ out.cancels = {<<q, b>> : q \in others}
              /\ \A c \in out.cancels : c[1] # who /\ c[1][1] # "ws"
              /\ out.at_got_block.reqs = out.reqs
              /\ out.at_got_block.cancels = out.cancels
              /\ out.at_got_block.have = tor[t].have
              /\ out.have = tor[t].have \cup {b}

\* two BitTorrent peers and a webseed have asked for the block one of the
\* peers delivers: the other peer alone is sent a CANCEL
C23_Witness ==
    \E t \in SessionTorrents, p \in PeerIds, q \in PeerIds, w \in WebseedIds, b \in Blocks :
        /\ ~crashed /\ swarm[t] = "live" /\ tor[t].has_metainfo
        /\ p # q
        /\ {BtPeer(p), BtPeer(q), WsPeer(w)} \subseteq Requesters(t, b)
        /\ LET out == client_got_block(active_requests[t], tor[t].have, BtPeer(p), b)
           IN /\ out.cancels = {<<BtPeer(q), b>>}
              /\ out.reqs # active_requests[t]
              /\ b \notin tor[t].have /\ b \in out.have

\* a step that handles ClientGotChoke or ClientGotRej leaves the pools, the
\* tr_peer_info, the peers and the peers list alone
ChokeOrRejFrame ==
    ((\E p \in PeerIds : ClientGotChoke(1, p))
       \/ (\E who \in AnyPeer, b \in Blocks : ClientGotRej(1, who, b)))
    => UNCHANGED <<connectable_pool, incoming_pool, graveyard_pool, info, peer, peers,
                   webseeds, tor, stats>>

\* C24: ClientGotChoke from peer p removes every active request whose peer is
\* p and nothing else; ClientGotRej from p for a location removes exactly the
\* pair (block of the location, p) and nothing else.  In both cases the
\* requests of all other peers, the pools and the peers list are unchanged
\* and no CANCEL is sent.
C24_ChokeAndRejRemoveOwnRequests ==
    /\ [](\A t \in SessionTorrents, p \in PeerIds, b \in Blocks :
            (~crashed /\ swarm[t] = "live" /\ p \in Range(peers[t]))
            => LET choke == client_got_choke(active_requests[t], BtPeer(p))
                   rej == client_got_rej(active_requests[t], BtPeer(p), b)
               IN /\ choke.reqs = {r \in active_requests[t] : r.peer # BtPeer(p)}
                  /\ choke.cancels = {}
                  /\ rej.reqs = active_requests[t]
                                   \ {r \in active_requests[t] :
                                          r.block = b /\ r.peer = BtPeer(p)}
                  /\ rej.cancels = {})
    /\ [][ChokeOrRejFrame]_vars

\* a peer with requests for two blocks, another peer with a request for one
\* of them: a choke takes the first peer's two, a reject takes one pair
C24_Witness ==
    \E t \in SessionTorrents, p \in PeerIds, q \in PeerIds :
        /\ ~crashed /\ swarm[t] = "live"
        /\ p # q /\ {p, q} \subseteq Range(peers[t])
        /\ BtPeer(p) \in Requesters(t, 1) \cap Requesters(t, 2)
        /\ BtPeer(q) \in Requesters(t, 1)
        /\ Cardinality(client_got_choke(active_requests[t], BtPeer(p)).reqs) = 1
        /\ Cardinality(client_got_rej(active_requests[t], BtPeer(p), 1).reqs) = 2

\* the requests of a swarm that cancelOldRequests has to drop at this time
TooOld(t) == {r \in active_requests[t] : r.sent < now - RequestTtlSecs}

\* a refillUpkeep step leaves in every swarm exactly the requests young enough
RefillKeepsYoung ==
    RefillUpkeep => \A t \in SessionTorrents :
                       active_requests'[t] = active_requests[t] \ TooOld(t)

\* C25: after refillUpkeep at time now, no swarm's active_requests holds a
\* pair sent earlier than now - 90 s, every pair sent at now - 90 s or later
\* is still there, and exactly one CANCEL was sent per dropped pair whose
\* peer is a BitTorrent peer, none for a webseed.
C25_RefillDropsOldRequests ==
    /\ [](\A t \in SessionTorrents :
            ~crashed
            => LET out == cancelOldRequests(active_requests[t])
                   dropped == active_requests[t] \ out.reqs
                   to_bt == {r \in dropped : r.peer[1] = "bt"}
               IN /\ \A r \in out.reqs : ~(r.sent < now - RequestTtlSecs)
                  /\ \A r \in active_requests[t] :
                        r.sent >= now - RequestTtlSecs => r \in out.reqs
                  /\ out.reqs \subseteq active_requests[t]
                  /\ out.cancels = {<<r.peer, r.block>> : r \in to_bt}
                  /\ Cardinality(out.cancels) = Cardinality(to_bt))
    /\ [][RefillKeepsYoung]_vars

\* a peer's and the webseed's requests are too old, another peer's request
\* is exactly 90 s old: two pairs go, one stays, one CANCEL is sent
C25_Witness ==
    \E t \in SessionTorrents, p \in PeerIds, q \in PeerIds, w \in WebseedIds :
        /\ ~crashed
        /\ p # q
        /\ \E r \in TooOld(t) : r.peer = BtPeer(p)
        /\ \E r \in TooOld(t) : r.peer = WsPeer(w)
        /\ \E r \in active_requests[t] :
              r.peer = BtPeer(q) /\ r.sent = now - RequestTtlSecs
        /\ LET out == cancelOldRequests(active_requests[t])
           IN /\ Cardinality(out.cancels) = 1
              /\ Cardinality(out.reqs) = 1

\* C26: on a got_bad_piece signal every connected peer whose blame bitfield
\* marks the piece gets exactly one more strike and the other peers are
\* unchanged; a peer's tr_peer_info is banned and the peer marked do_purge
\* exactly when its strike count reaches MaxBadPiecesPerPeer, so a peer
\* with fewer strikes is never banned by this path.
C26_FifthStrikeBans ==
    \A t \in SessionTorrents :
        (~crashed /\ swarm[t] = "live"
           /\ \A p \in Range(peers[t]) : peer[p].info \in InfoIds)
        => LET r == strike_each(peer, info, peers[t])
               blamed == {p \in Range(peers[t]) : peer[p].blame}
               struck_out == {p \in blamed : peer[p].strikes + 1 = MaxBadPiecesPerPeer}
           IN /\ \A p \in blamed : r.peer[p].strikes = peer[p].strikes + 1
              /\ \A p \in PeerIds \ blamed : r.peer[p] = peer[p]
              /\ \A p \in blamed :
                    r.peer[p] = [peer[p] EXCEPT !.strikes = @ + 1,
                                                !.do_purge = @ \/ p \in struck_out]
              /\ \A i \in InfoIds :
                    r.info[i] = IF \E p \in struck_out : peer[p].info = i
                                THEN ban(info[i]) ELSE info[i]
              /\ \A p \in Range(peers[t]) :
                    r.peer[p].strikes < MaxBadPiecesPerPeer
                    => /\ r.peer[p].do_purge = peer[p].do_purge
                       /\ r.info[peer[p].info].banned = info[peer[p].info].banned

\* one peer takes its fifth strike and is banned while another peer of the
\* swarm takes an earlier strike and a free tr_peer_info stays as it was
C26_Witness ==
    \E t \in SessionTorrents, p \in PeerIds, q \in PeerIds :
        /\ ~crashed /\ swarm[t] = "live"
        /\ p # q /\ {p, q} \subseteq Range(peers[t])
        /\ peer[p].blame /\ peer[p].strikes = MaxBadPiecesPerPeer - 1
        /\ ~peer[p].do_purge /\ ~info[peer[p].info].banned
        /\ peer[q].strikes < MaxBadPiecesPerPeer - 1
        /\ LET r == strike_each(peer, info, peers[t])
           IN /\ r.peer[p].do_purge /\ r.info[peer[p].info].banned
              /\ ~r.peer[q].do_purge /\ ~r.info[peer[q].info].banned

\* C27: every peer whose do_purge flag is set (by the fifth strike, by an
\* Error event with ERANGE, EMSGSIZE or ENOTCONN, or by losing a port
\* collision) is removed from the peers of its swarm by the next
\* reconnectPulse, whether the swarm is running or stopped; an Error event
\* with any other code does not set do_purge.
C27_PurgedPeersAreReaped ==
    ~crashed
    => /\ \A st \in reconnect_reap(Cur) :
             /\ ~st.crashed /\ ~st.ub
             /\ \A t \in SessionTorrents, p \in PeerIds :
                   (p \in Range(peers[t]) /\ peer[p].do_purge)
                   => p \notin Range(st.peers[t])
       /\ \A t \in SessionTorrents, p \in PeerIds, err \in ErrorCodes :
             p \in Range(peers[t])
             => peer_error(peer, p, err)
                  = [peer EXCEPT ![p].do_purge = @ \/ err \in PurgeErrors]

\* a handshake of swarm t at socket address sa that is still under way
HandshakePending(t, sa, incoming) ==
    IF incoming THEN sa \in incoming_handshakes ELSE sa \in outgoing_handshakes[t]

\* the state on_handshake_done works on once the handshake is off its table
AfterHandshakeErased(t, sa, incoming) ==
    IF incoming THEN Cur ELSE [Cur EXCEPT !.out[t] = @ \ {sa}]

\* C28: when a handshake ends in failure, or its swarm is stopped: if
\* connectable_pool holds a tr_peer_info at the socket address of the
\* handshake and it is not connected, its connection_failure_count grows by
\* exactly 1 and, only if nothing was ever read from the peer, it becomes
\* not connectable; a connected tr_peer_info is left untouched; no peer is
\* created.
C28_FailedHandshakeCountsOnce ==
    \A t \in SessionTorrents, sa \in SockAddrs,
       incoming \in BOOLEAN, ok \in BOOLEAN, read \in BOOLEAN, is_utp \in BOOLEAN :
        (~crashed /\ HandshakePending(t, sa, incoming) /\ (~ok \/ ~is_running[t]))
        => LET st0 == AfterHandshakeErased(t, sa, incoming)
               outs == on_handshake_done(st0, t, incoming, sa, ok, read, is_utp)
               held == PoolHas(connectable_pool[t], sa)
               id == IF held THEN connectable_pool[t][sa] ELSE NoInfo
           IN /\ outs # {}
              /\ \A e \in outs :
                    /\ ~e.ret /\ ~e.st.crashed
                    /\ e.st = [st0 EXCEPT !.info = e.st.info]
                    /\ e.st.info =
                          IF held /\ ~info[id].connected
                          THEN [info EXCEPT ![id] =
                                  [@ EXCEPT !.fails = @ + 1,
                                            !.connectable = IF read THEN @ ELSE "no"]]
                          ELSE info

\* an incoming handshake fails at an address where connectable_pool holds a
\* tr_peer_info that is not connected and has not failed yet
C28_Witness ==
    \E t \in SessionTorrents, sa \in SockAddrs :
        /\ ~crashed /\ sa \in incoming_handshakes
        /\ PoolHas(connectable_pool[t], sa)
        /\ LET id == connectable_pool[t][sa]
           IN /\ ~info[id].connected /\ info[id].fails = 0 /\ info[id].connectable # "no"
              /\ \E e \in on_handshake_done(Cur, t, TRUE, sa, FALSE, FALSE, FALSE) :
                    e.st.info[id].fails = 1 /\ e.st.info[id].connectable = "no"
              /\ \E e \in on_handshake_done(Cur, t, TRUE, sa, FALSE, TRUE, FALSE) :
                    e.st.info[id].fails = 1 /\ e.st.info[id].connectable = info[id].connectable

\* why on_handshake_done turns down the tr_peer_info it found or made
RefusalReasons(st, t, id) ==
    {r \in {"banned", "full", "connected"} :
        \/ r = "banned" /\ st.info[id].banned
        \/ r = "full" /\ SwarmIsFull(st, t)
        \/ r = "connected" /\ st.info[id].connected}

\* the tr_peer_info on_handshake_done has at hand after a refusal
RefusedInfo(st, t, sa, incoming) ==
    IF incoming /\ PoolHas(st.ip[t], sa) THEN st.ip[t][sa]
    ELSE IF PoolHas(st.cp[t], sa) THEN st.cp[t][sa]
    ELSE NoInfo

\* C29: admission refusal changes no counter.  When a successful handshake
\* is refused because the peer is banned, the swarm is full or the
\* tr_peer_info is already connected, stats.peer_count,
\* stats.peer_from_count, the peers list and the connection_failure_count
\* of every tr_peer_info are what they were before the handshake ended.
C29_RefusalChangesNoCounter ==
    \A t \in SessionTorrents, sa \in SockAddrs,
       incoming \in BOOLEAN, read \in BOOLEAN, is_utp \in BOOLEAN :
        (~crashed /\ HandshakePending(t, sa, incoming) /\ is_running[t])
        => LET st0 == AfterHandshakeErased(t, sa, incoming)
           IN \A e \in on_handshake_done(st0, t, incoming, sa, TRUE, read, is_utp) :
                 (~e.ret /\ ~e.st.crashed)
                 => /\ RefusedInfo(e.st, t, sa, incoming) # NoInfo
                    /\ RefusalReasons(e.st, t, RefusedInfo(e.st, t, sa, incoming)) # {}
                    /\ e.st.stats = stats
                    /\ e.st.peers = peers
                    /\ e.st.peer = peer
                    /\ \A i \in Owned : e.st.info[i].fails = info[i].fails
                    /\ \A i \in OwnedIn(e.st.cp, e.st.ip, e.st.gp) \ Owned :
                          e.st.info[i].fails = 0

\* a handshake with a banned peer ends well while another peer is connected:
\* it is refused for the ban alone
C29_Witness ==
    \E t \in SessionTorrents, sa \in SockAddrs, incoming \in BOOLEAN :
        /\ ~crashed /\ HandshakePending(t, sa, incoming) /\ is_running[t]
        /\ peers[t] # <<>>
        /\ \E e \in on_handshake_done(AfterHandshakeErased(t, sa, incoming), t, incoming,
                                       sa, TRUE, TRUE, FALSE) :
              /\ ~e.ret /\ ~e.st.crashed
              /\ RefusalReasons(e.st, t, RefusedInfo(e.st, t, sa, incoming)) = {"banned"}
              /\ e.st.stats = stats /\ e.st.peers = peers

\* the rates and salts a rechoke can meet
RatesAndSalts == [PeerIds -> 0..MaxRate] \X [PeerIds -> 0..MaxSalt]

\* swarm t is about to be rechoked with its upstream bandwidth maxed out
MaxedOutRechoke(t) ==
    /\ ~crashed /\ is_running[t] /\ stats[t].peer_count > 0
    /\ tor[t].up_maxed

\* C30: when upstream bandwidth is maxed out, a rechoke preserves the choke
\* states: every non-seed peer that was unchoked before the pulse is still
\* unchoked after it, no peer that was choked becomes unchoked, and no
\* optimistic peer is chosen, for any number of connected peers and any
\* uploadSlotsPerTorrent, the peers that sort after the point where the slot
\* budget is exhausted included.
C30_MaxedOutPreservesChokes ==
    \A t \in SessionTorrents :
        (MaxedOutRechoke(t) /\ tor[t].can_upload)
        => \A rs \in RatesAndSalts : \A st \in rechokeUploads(Cur, t, rs[1], rs[2]) :
              /\ \A p \in Range(peers[t]) :
                    (~peer[p].is_seed /\ ~peer[p].choked) => ~st.peer[p].choked
              /\ \A p \in Range(peers[t]) : peer[p].choked => st.peer[p].choked
              /\ st.opt[t] \in {NoPeer, optimistic[t]}

\* C30, amended: when upstream bandwidth is maxed out, a rechoke unchokes
\* nobody and chooses no optimistic peer.  A non-seed peer that was unchoked
\* stays unchoked if it is the still-current optimistic peer, or if the
\* torrent can upload and fewer than uploadSlotsPerTorrent other interested
\* peers are in the vector; a peer the rechoke chokes has sorted after
\* uploadSlotsPerTorrent interested peers, or the torrent cannot upload.
C30_MaxedOutUnchokesNobody ==
    \A t \in SessionTorrents :
        MaxedOutRechoke(t)
        => \A rs \in RatesAndSalts : \A st \in rechokeUploads(Cur, t, rs[1], rs[2]) :
              LET current == IF optimistic_unchoke_time_scaler[t] > 0
                             THEN optimistic[t] ELSE NoPeer
                  listed == Reshuffled(Cur, t, current)
                  others(p) == {q \in listed \ {p} : peer[q].interested}
              IN /\ \A p \in Range(peers[t]) : peer[p].choked => st.peer[p].choked
                 /\ st.opt[t] = current
                 /\ st.scaler[t] = IF optimistic_unchoke_time_scaler[t] > 0
                                   THEN optimistic_unchoke_time_scaler[t] - 1 ELSE 0
                 /\ \A p \in Range(peers[t]) :
                       (~peer[p].is_seed /\ ~peer[p].choked)
                       => /\ (p = current /\ tor[t].can_upload) => ~st.peer[p].choked
                          /\ (tor[t].can_upload /\ Cardinality(others(p)) < upload_slots)
                                => ~st.peer[p].choked
                          /\ st.peer[p].choked
                                => \/ ~tor[t].can_upload
                                   \/ p # current /\ Cardinality(others(p)) >= upload_slots

\* two peers that can be uploaded to are unchoked and one slot is left: the
\* rechoke keeps the interested one that sorts first and chokes the other
C30_Witness ==
    \E t \in SessionTorrents, p \in PeerIds, q \in PeerIds :
        /\ MaxedOutRechoke(t) /\ tor[t].can_upload /\ upload_slots = 1
        /\ p # q /\ {p, q} \subseteq Range(peers[t])
        /\ ~peer[p].is_seed /\ ~peer[q].is_seed
        /\ ~peer[p].choked /\ ~peer[q].choked
        /\ peer[p].interested
        /\ optimistic[t] = NoPeer
        /\ \E rs \in RatesAndSalts : \E st \in rechokeUploads(Cur, t, rs[1], rs[2]) :
              ~st.peer[p].choked /\ st.peer[q].choked /\ st.opt[t] = NoPeer


\* the states k successive calls of rechokeUploads on swarm t can lead to
RECURSIVE RechokeCalls(_, _, _)
RechokeCalls(sts, t, k) ==
    IF k = 0 THEN sts
    ELSE RechokeCalls(UNION {rechokeUploads(st, t, rs[1], rs[2]) :
                                st \in sts, rs \in RatesAndSalts}, t, k - 1)

\* peer p of swarm t has just been chosen as the optimistic unchoke
JustChosen(t, p) ==
    /\ ~crashed /\ is_running[t] /\ stats[t].peer_count > 0
    /\ p \in Range(peers[t])
    /\ optimistic[t] = p
    /\ optimistic_unchoke_time_scaler[t] = OptimisticUnchokeMultiplier

\* during the next OptimisticUnchokeMultiplier calls the chosen peer stays the
\* optimistic peer and stays out of the reshuffle
TermLastsFourCalls(t, p) ==
    \A k \in 1..OptimisticUnchokeMultiplier :
        /\ \A st \in RechokeCalls({Cur}, t, k - 1) :
              p \notin Reshuffled(st, t, optimistic_countdown(st, t).opt[t])
        /\ \A st \in RechokeCalls({Cur}, t, k) :
              st.opt[t] = p /\ st.scaler[t] = OptimisticUnchokeMultiplier - k

\* C31 as stated: a peer chosen as the optimistic unchoke stays the swarm's
\* optimistic peer, out of the reshuffle, for exactly the next 4 calls of
\* rechokeUploads on that swarm and is no longer the optimistic peer from the
\* call after that.
C31_OptimisticGoneAfterFourCalls ==
    \A t \in Torrents : \A p \in PeerIds :
        JustChosen(t, p) =>
            /\ TermLastsFourCalls(t, p)
            /\ \A st \in RechokeCalls({Cur}, t, OptimisticUnchokeMultiplier + 1) :
                  st.opt[t] # p

\* C31, amended: a peer chosen as the optimistic unchoke stays the swarm's
\* optimistic peer, out of the reshuffle, for exactly the next 4 calls of
\* rechokeUploads on that swarm, and no other optimistic peer is selected in
\* them; the call after that resets the pointer and puts the peer through the
\* reshuffle (unless it is choked outright), where the random pick may select
\* it, or another peer, for a new term of 4 calls.
C31_OptimisticTermIsFourCalls ==
    \A t \in Torrents : \A p \in PeerIds :
        JustChosen(t, p) =>
            /\ TermLastsFourCalls(t, p)
            /\ \A st \in RechokeCalls({Cur}, t, OptimisticUnchokeMultiplier) :
                  /\ optimistic_countdown(st, t).opt[t] = NoPeer
                  /\ p \in Reshuffled(st, t, NoPeer) \cup ChokedOutright(st, t)
            /\ \A st \in RechokeCalls({Cur}, t, OptimisticUnchokeMultiplier + 1) :
                  st.opt[t] = NoPeer \/ st.scaler[t] = OptimisticUnchokeMultiplier

\* a peer has just been chosen and, five calls later, some run has picked it
\* again and some run has picked nobody
C31_Witness ==
    \E t \in Torrents : \E p \in PeerIds :
        /\ JustChosen(t, p)
        /\ \E st \in RechokeCalls({Cur}, t, OptimisticUnchokeMultiplier) :
              st.opt[t] = p /\ st.scaler[t] = 0
        /\ \E st \in RechokeCalls({Cur}, t, OptimisticUnchokeMultiplier + 1) :
              st.opt[t] = NoPeer


\* C32: whenever outbound_candidates is rebuilt, its back holds the
\* lowest-score candidate and scores are non-decreasing from back to front, for
\* any number of viable candidates, at or below the list capacity included.
C32_CandidatesBestAtBack ==
    ~crashed =>
        \A q \in get_scored_candidates(Cur) :
            \A i, j \in DOMAIN q : i < j => ~ScoreLess(q[i].score, q[j].score)


\* C33: every entry a rebuild places in outbound_candidates belongs to a
\* running swarm below its peer_limit and refers to a connectable_pool
\* PeerInfo that passes is_candidate at rebuild time (is_connectable not false,
\* not both sides seeding, not connected, no outgoing handshake pending,
\* reconnect backoff elapsed, not blocklisted, not banned); a rebuild yields an
\* empty list when the global peer count is at or above 95% of the session
\* peer limit.
C33_RebuiltEntriesAreCandidates ==
    ~crashed =>
        \A q \in get_peer_candidates(Cur) :
            /\ \A i \in DOMAIN q :
                  LET t == q[i][1]
                      sa == q[i][2]
                  IN /\ t \in SessionTorrents
                     /\ is_running[t]
                     /\ Len(peers[t]) < tor[t].peer_limit
                     /\ PoolHas(connectable_pool[t], sa)
                     /\ LET pi == info[connectable_pool[t][sa]]
                        IN /\ pi.connectable # "no"
                           /\ ~(tor[t].is_done /\ pi.seed)
                           /\ ~pi.connected
                           /\ sa \notin outgoing_handshakes[t]
                           /\ reconnect_interval_has_passed(pi, now)
                           /\ pi.addr \notin blocklist
                           /\ ~pi.banned
            /\ (100 * PeerMsgsSize(Cur) >= 95 * session_peer_limit => q = <<>>)

\* two entries of swarm t's connectable_pool that agree on every field of the
\* score above the seed bit, the first not a seed, the second a seed
SeedBitDecides(t, a, b) ==
    /\ ~crashed
    /\ t \in SessionTorrents
    /\ a \in DOMAIN connectable_pool[t] /\ b \in DOMAIN connectable_pool[t]
    /\ LET pa == info[connectable_pool[t][a]]
           pb == info[connectable_pool[t][b]]
       IN /\ ~pa.seed /\ pb.seed
          /\ (pa.fails # 0) = (pb.fails # 0)
          /\ pa.attempt = pb.attempt
          /\ (pa.connectable = "yes") = (pb.connectable = "yes")

\* C34: in the candidate score the seed bit is 0 iff the peer is not a seed:
\* of two candidates that agree on every more significant field the non-seed
\* gets the strictly smaller score, whatever the less significant fields.
C34_NonSeedScoresLower ==
    \A t \in Torrents : \A a, b \in SockAddrs :
        SeedBitDecides(t, a, b) =>
            \A sa, sb \in 0..MaxSalt :
                ScoreLess(getPeerCandidateScore(t, info[connectable_pool[t][a]], sa),
                          getPeerCandidateScore(t, info[connectable_pool[t][b]], sb))


\* C35: the optimistic pointer of a swarm is always either null or an element
\* of that swarm's peers: after a peer is removed by the reap, by limit
\* enforcement, by remove_all_peers or by stop, optimistic never still
\* designates the removed peer.
C35_OptimisticIsNullOrPeer ==
    ~crashed =>
        \A t \in Torrents : optimistic[t] = NoPeer \/ optimistic[t] \in Range(peers[t])


\* C36: at the moment make_new_peer_connections registers an outgoing
\* handshake, the target swarm is running and the target PeerInfo is not
\* connected and not banned and has no other outgoing handshake pending, also
\* for a candidate taken from a list cached in an earlier pulse; consequently
\* a stopped swarm never holds an outgoing handshake.
C36_DialsOnlyViableTargets ==
    ~crashed =>
        /\ \A t \in SessionTorrents : ~is_running[t] => outgoing_handshakes[t] = {}
        /\ \A st3 \in reconnect_reap(Cur) :
              \A st4 \in make_new_peer_connections(st3, DialOutcomes) :
                 \A x \in NewHandshakes(st3, st4) :
                    /\ st3.run[x[1]]
                    /\ ~st3.info[get_existing_peer_info(st3, x[1], x[2])].connected
                    /\ ~st3.info[get_existing_peer_info(st3, x[1], x[2])].banned


\* the peers of swarm t that refer to the tr_peer_info in cell id
PeersReferringTo(t, id) == {i \in 1..Len(peers[t]) : peer[peers[t][i]].info = id}

\* C37: each PeerInfo is referenced by at most one element of its swarm's
\* peers, and a PeerInfo is marked connected exactly when some peer references
\* it; two connected peers never share one PeerInfo, also after port-learning
\* merges and re-keying.
C37_OnePeerPerInfo ==
    ~crashed =>
        \A t \in Torrents :
            \A id \in PoolIds(connectable_pool[t]) \cup PoolIds(incoming_pool[t])
                          \cup PoolIds(graveyard_pool[t]) :
                /\ Cardinality(PeersReferringTo(t, id)) <= 1
                /\ info[id].connected <=> PeersReferringTo(t, id) # {}


\* C38: every PeerInfo in incoming_pool is referenced by a currently connected
\* peer: an entry is created only when an inbound handshake succeeds and is
\* erased when its peer is removed, so no entry outlives its connection, the
\* entries of inbound handshakes refused for a full swarm or a ban included.
C38_IncomingEntriesHavePeers ==
    ~crashed =>
        \A t \in Torrents : \A k \in DOMAIN incoming_pool[t] :
            /\ info[incoming_pool[t][k]].connected
            /\ \E i \in 1..Len(peers[t]) : peer[peers[t][i]].info = incoming_pool[t][k]


\* C39: every graveyard_pool entry is referenced by a connected peer that is
\* marked do_purge and is erased when that peer is removed; graveyard_pool
\* never holds more entries than the swarm has peers and is empty whenever
\* peers is empty, also when the displaced peer sends further ClientGotPort
\* messages before it is reaped.
C39_GraveyardEntriesHavePurgedPeers ==
    ~crashed =>
        \A t \in Torrents :
            /\ \A k \in DOMAIN graveyard_pool[t] :
                  \E i \in 1..Len(peers[t]) :
                     /\ peer[peers[t][i]].info = graveyard_pool[t][k]
                     /\ peer[peers[t][i]].do_purge
            /\ Cardinality(DOMAIN graveyard_pool[t]) <= Len(peers[t])
            /\ (peers[t] = <<>> => DOMAIN graveyard_pool[t] = {})


\* peer p of swarm t announces a port that makes peer_callback_bt call on_got_port
CallsOnGotPort(t, p, port) ==
    /\ ~crashed
    /\ t \in SessionTorrents
    /\ p \in Range(peers[t])
    /\ port # EmptyPort
    /\ info[peer[p].info].port # port

\* C40: the assertions inside on_got_port hold on every reachable call: the
\* node extracted for re-keying is never empty and is the node that holds the
\* announcing peer's own PeerInfo (from connectable_pool when the port was
\* known, from incoming_pool under the peer's remote socket address
\* otherwise), its key matches that PeerInfo's listen address, and re-inserting
\* it into connectable_pool under the new port always succeeds.
C40_OnGotPortAssertionsHold ==
    \A t \in Torrents : \A p \in PeerIds : \A port \in Ports :
        CallsOnGotPort(t, p, port) =>
            LET was_connectable == info[peer[p].info].port # EmptyPort
                r == on_got_port_until_extract(Cur, t, p, port, was_connectable)
                key == IF was_connectable THEN listen_socket_address(r.st.info[peer[p].info])
                       ELSE peer[p].sa
                pool == IF was_connectable THEN r.st.cp[t] ELSE r.st.ip[t]
            IN /\ info[peer[p].info].connected
               /\ ~r.st.crashed
               /\ r.rekey => /\ RekeyAsserts(r.st, t, p, port, was_connectable)
                             /\ pool[key] = peer[p].info

====
